---------------------------- MODULE Spec2Model ----------------------------
(***************************************************************************)
(* Court booking backend: slot overlap detection, availability checking,   *)
(* pricing, promo-code ledger and the reservation handlers, modelled from  *)
(* the TypeScript sources (Express controllers over Mongoose models).      *)
(*                                                                         *)
(* Conventions                                                             *)
(*  - A clock time "HH:MM" is the pair <<h, m>>; timeToMinutes converts.   *)
(*  - A calendar day is a day number counted from 2026-02-01 (= 1), a      *)
(*    Sunday; the server clock is taken to be UTC, so that setHours and    *)
(*    setUTCHours name the same midnight.                                  *)
(*  - A stored bookingDate is <<day, tc>>: tc = 0 is midnight, tc = 1 is   *)
(*    any other instant of that day (a date stored with a time component). *)
(*  - Money is in halalas (1 SAR = 100), so that half-hour segments and    *)
(*    Math.round stay in the integers.                                     *)
(***************************************************************************)
EXTENDS Integers, Sequences, FiniteSets, TLC

VARIABLES
    bookings,     \* the bookings collection, in insertion order (id = index)
    customers,    \* the customers collection, in insertion order (id = index)
    pendings,     \* the pendingbookings collection (a set of documents)
    promo,        \* the promocodes collection: one document
    rules,        \* the active pricing rules: (days, timeSlot) -> pricePerHour
    strictQuery,  \* Mongoose build: are undeclared paths stripped from filters
    resp,         \* the last request and its response
    procs,        \* in-flight requests of the concurrent specification
    call          \* the last application of a pure function (SpecPure)

vars == <<bookings, customers, pendings, promo, rules, strictQuery, resp, procs, call>>

store == <<bookings, customers, pendings, promo, rules>>

-----------------------------------------------------------------------------
(* Program constants *)

MinutesPerDay == 1440
MinutesPerHour == 60
operatingStart == 540
operatingEnd == 240
MinDuration == 60
Increment == 30
NightStartHour == 19
NightEndHour == 9
EarlyMorningEndHour == 4

(* Bounds of the model *)

MaxBookings == 2
MaxCustomers == 2

None == "none"

-----------------------------------------------------------------------------
(* Clock times *)

HM(h, m) == <<h, m>>

timeToMinutes(time) == time[1] * MinutesPerHour + time[2]

validateTimeFormat(time) ==
    /\ time[1] \in 0..23
    /\ time[2] \in 0..59

-----------------------------------------------------------------------------
(* Slot overlap detector: BookingService.timeSlotsOverlap *)

\* Variant with closed intervals in the plain case.
timeSlotsOverlapClosed(start1, end1, crosses1, start2, end2, crosses2) ==
    IF ~crosses1 /\ ~crosses2 THEN start1 <= end2 /\ end1 >= start2
    ELSE IF crosses1 /\ ~crosses2 THEN (start2 >= start1) \/ (end2 <= end1)
    ELSE IF ~crosses1 /\ crosses2 THEN (start1 >= start2) \/ (end1 <= end2)
    ELSE TRUE

\* Variant that forgets to reverse the arguments when slot 2 crosses.
timeSlotsOverlapNoReverse(start1, end1, crosses1, start2, end2, crosses2) ==
    IF ~crosses1 /\ ~crosses2 THEN start1 < end2 /\ end1 > start2
    ELSE IF crosses1 /\ ~crosses2 THEN (start2 >= start1) \/ (end2 <= end1)
    ELSE IF ~crosses1 /\ crosses2 THEN (start2 >= start1) \/ (end2 <= end1)
    ELSE TRUE

timeSlotsOverlap(start1, end1, crosses1, start2, end2, crosses2) ==
    IF ~crosses1 /\ ~crosses2
    THEN start1 < end2 /\ end1 > start2
    ELSE IF crosses1 /\ ~crosses2
    THEN IF start2 >= start1 THEN TRUE
         ELSE IF end2 <= end1 THEN TRUE
         ELSE FALSE
    ELSE IF ~crosses1 /\ crosses2
    THEN \* the recursive call with the arguments reversed
         IF start1 >= start2 THEN TRUE
         ELSE IF end1 <= end2 THEN TRUE
         ELSE FALSE
    ELSE TRUE

\* The caller's derivation of the crossing flags (checkAvailability).
crossesMidnight(startMinutes, endMinutes) == endMinutes < startMinutes

overlapsHM(start1, end1, start2, end2) ==
    timeSlotsOverlap(
        timeToMinutes(start1), timeToMinutes(end1),
        crossesMidnight(timeToMinutes(start1), timeToMinutes(end1)),
        timeToMinutes(start2), timeToMinutes(end2),
        crossesMidnight(timeToMinutes(start2), timeToMinutes(end2)))

\* The two minute ranges of an interval on the 0..1439 circle (section 4.1 of
\* the specification): used only to state the claims.
Ranges(startMinutes, endMinutes) ==
    IF endMinutes > startMinutes THEN {<<startMinutes, endMinutes>>}
    ELSE IF endMinutes < startMinutes
    THEN {<<startMinutes, MinutesPerDay>>, <<0, endMinutes>>}
    ELSE {}

Intersects(start1, end1, start2, end2) ==
    \E r \in Ranges(start1, end1), q \in Ranges(start2, end2) :
        r[1] < q[2] /\ q[1] < r[2]

-----------------------------------------------------------------------------
(* BookingService.validateBookingTime and calculateDuration *)

durationMinutes(startTime, endTime) ==
    LET startMinutes == timeToMinutes(startTime)
        endMinutes == timeToMinutes(endTime)
    IN  IF endMinutes < startMinutes
        THEN 24 * 60 - startMinutes + endMinutes
        ELSE endMinutes - startMinutes

\* The result is "ok" or the reason of the first check that throws.  The
\* last check of the code (the date is not in the past) compares with the
\* wall clock; every date of the model is taken to be today or later.
validateBookingTime(startTime, endTime) ==
    LET startMinutes == timeToMinutes(startTime)
        endMinutes == timeToMinutes(endTime)
        crosses == endMinutes < startMinutes
        duration == durationMinutes(startTime, endTime)
    IN  IF ~validateTimeFormat(startTime) \/ ~validateTimeFormat(endTime)
        THEN "format"
        ELSE IF duration < MinDuration THEN "too_short"
        ELSE IF duration % Increment # 0 THEN "increment"
        ELSE IF ~(startMinutes >= operatingStart \/ startMinutes < operatingEnd)
        THEN "start_outside_hours"
        ELSE IF crosses /\ endMinutes > operatingEnd THEN "ends_after_4"
        ELSE IF ~crosses /\ startMinutes >= operatingStart
                /\ endMinutes <= operatingStart
        THEN "invalid_time"
        ELSE "ok"

\* durationHours is kept in minutes (the schema's min: 1 is 60 minutes).
calculateDuration(startTime, endTime) == durationMinutes(startTime, endTime)

-----------------------------------------------------------------------------
(* PricingService *)

SAR(n) == n * 100

\* Date.getDay(): 0 = Sunday; day 1 is Sunday 2026-02-01.
getDayOfWeek(day) == (day - 1) % 7

\* Date.getDate(): the day of the month; day 29 is 2026-03-01.
getDate(day) == ((day - 1) % 28) + 1

getDays(day) ==
    LET d == getDayOfWeek(day)
    IN  IF d = 0 \/ d = 1 \/ d = 2 \/ d = 3 THEN "sun-wed"
        ELSE IF d = 4 THEN "thu"
        ELSE IF d = 5 THEN "fri"
        ELSE "sat"

getCategory(days, timeSlot) ==
    IF days = "sun-wed" /\ timeSlot = "day" THEN "weekday-day"
    ELSE IF days = "sun-wed" /\ timeSlot = "night" THEN "weekday-night"
    ELSE IF days = "thu" /\ timeSlot = "day" THEN "weekday-day"
    ELSE IF days = "thu" /\ timeSlot = "night" THEN "weekend-night"
    ELSE IF days = "fri" /\ timeSlot = "day" THEN "weekend-day"
    ELSE IF days = "fri" /\ timeSlot = "night" THEN "weekend-night"
    ELSE IF days = "sat" /\ timeSlot = "day" THEN "weekend-day"
    ELSE "weekday-night"

isNightTime(hour) == hour >= NightStartHour \/ hour < NightEndHour

getTimeSlot(hour) == IF isNightTime(hour) THEN "night" ELSE "day"

\* An instant is a number of minutes since 00:00 of day 0.
DayOf(instant) == instant \div MinutesPerDay
HourOf(instant) == (instant % MinutesPerDay) \div MinutesPerHour
MinuteOf(instant) == instant % MinutesPerHour
At(day, time) == day * MinutesPerDay + timeToMinutes(time)

\* The older copy of the rule: 00:00-04:00 always belongs to the previous day.
getEffectiveDatePrevious(instant, bookingDay) ==
    IF HourOf(instant) >= 0 /\ HourOf(instant) < EarlyMorningEndHour
    THEN DayOf(instant) - 1
    ELSE DayOf(instant)

\* The day whose bucket prices the slot starting at `instant`.
getEffectiveDate(instant, bookingDay) ==
    IF HourOf(instant) >= 0 /\ HourOf(instant) < EarlyMorningEndHour
    THEN IF getDate(DayOf(instant)) = getDate(bookingDay)
         THEN bookingDay
         ELSE DayOf(instant) - 1
    ELSE DayOf(instant)

\* getPrice without the rule lookup: the classification of one slot.
Classify(instant, bookingDay) ==
    LET days == getDays(getEffectiveDate(instant, bookingDay))
        timeSlot == getTimeSlot(HourOf(instant))
    IN  [days |-> days, timeSlot |-> timeSlot,
         category |-> getCategory(days, timeSlot)]

RECURSIVE WalkWholeHours(_, _, _)
\* A walk whose last segment is a whole hour too.
WalkWholeHours(currentTime, endDateTime, bookingDay) ==
    IF ~(currentTime < endDateTime) THEN <<>>
    ELSE LET nextHour == currentTime + MinutesPerHour
             c == Classify(currentTime, bookingDay)
         IN  <<[from |-> currentTime, to |-> nextHour,
                days |-> c.days, timeSlot |-> c.timeSlot,
                category |-> c.category]>>
             \o WalkWholeHours(nextHour, endDateTime, bookingDay)

RECURSIVE Walk(_, _, _)
\* The while loop of calculateBookingPrice from currentTime to endDateTime.
Walk(currentTime, endDateTime, bookingDay) ==
    IF ~(currentTime < endDateTime) THEN <<>>
    ELSE LET nextHour == currentTime + MinutesPerHour
             slotEnd == IF nextHour > endDateTime THEN endDateTime ELSE nextHour
             c == Classify(currentTime, bookingDay)
         IN  <<[from |-> currentTime, to |-> slotEnd,
                days |-> c.days, timeSlot |-> c.timeSlot,
                category |-> c.category]>>
             \o Walk(slotEnd, endDateTime, bookingDay)

RECURSIVE SumPriceWholeHours(_, _)
\* A total that charges every segment a full hour.
SumPriceWholeHours(segments, table) ==
    IF segments = <<>> THEN 0
    ELSE LET s == Head(segments)
         IN  SAR(table[<<s.days, s.timeSlot>>])
             + SumPriceWholeHours(Tail(segments), table)

RECURSIVE SumPrice(_, _)
\* totalPrice += price * slotDuration, in halalas.
SumPrice(segments, table) ==
    IF segments = <<>> THEN 0
    ELSE LET s == Head(segments)
         IN  (SAR(table[<<s.days, s.timeSlot>>]) * (s.to - s.from)) \div MinutesPerHour
             + SumPrice(Tail(segments), table)

\* A pricing that charges nothing for a segment without an active rule.
calculateBookingPriceDefaulted(table, bookingDay, startTime, endTime) ==
    LET startDateTime == At(bookingDay, startTime)
        endAt == At(bookingDay, endTime)
        endDateTime == IF endAt <= startDateTime THEN endAt + MinutesPerDay ELSE endAt
        total == endDateTime - startDateTime
        segments == Walk(startDateTime, endDateTime, bookingDay)
        defaulted == [k \in {"sun-wed", "thu", "fri", "sat"} \X {"day", "night"} |->
                         IF k \in DOMAIN table THEN table[k] ELSE 0]
    IN  IF total < MinutesPerHour THEN [ok |-> FALSE, error |-> "min_duration"]
        ELSE IF total % MinutesPerHour # 0 /\ total % MinutesPerHour # 30
        THEN [ok |-> FALSE, error |-> "increment"]
        ELSE [ok |-> TRUE, totalMinutes |-> total, breakdown |-> segments,
              finalPrice |-> SumPrice(segments, defaulted)]

\* calculateBookingPrice(bookingDate, startTime, endTime) over the rule table.
calculateBookingPrice(table, bookingDay, startTime, endTime) ==
    LET startDateTime == At(bookingDay, startTime)
        endAt == At(bookingDay, endTime)
        endDateTime == IF endAt <= startDateTime THEN endAt + MinutesPerDay ELSE endAt
        total == endDateTime - startDateTime
        segments == Walk(startDateTime, endDateTime, bookingDay)
    IN  IF total < MinutesPerHour THEN [ok |-> FALSE, error |-> "min_duration"]
        ELSE IF total % MinutesPerHour # 0 /\ total % MinutesPerHour # 30
        THEN [ok |-> FALSE, error |-> "increment"]
        ELSE IF \E i \in 1..Len(segments) :
                   <<segments[i].days, segments[i].timeSlot>> \notin DOMAIN table
        THEN [ok |-> FALSE, error |-> "rule_not_found"]
        ELSE [ok |-> TRUE, totalMinutes |-> total, breakdown |-> segments,
              finalPrice |-> SumPrice(segments, table)]

-----------------------------------------------------------------------------
(* The stores *)

Courts == {"c1", "c2"}
Phones == {"p1"}
PaymentIds == {"pay1"}
PromoCodeId == "PROMO"

Statuses == {"pending", "confirmed", "completed", "cancelled", "no-show", "blocked"}
PaymentStatuses == {"pending", "partial", "paid", "refunded"}

RuleKeys == {"sun-wed", "thu", "fri", "sat"} \X {"day", "night"}

\* The rate table of the deployment (the comments of getCategory).
SeedRules ==
    [k \in RuleKeys |->
        IF k = <<"sun-wed", "day">> THEN 90
        ELSE IF k = <<"sun-wed", "night">> THEN 110
        ELSE IF k = <<"thu", "day">> THEN 90
        ELSE IF k = <<"thu", "night">> THEN 135
        ELSE IF k = <<"fri", "day">> THEN 110
        ELSE IF k = <<"fri", "night">> THEN 135
        ELSE IF k = <<"sat", "day">> THEN 110
        ELSE 110]

\* The same table with the Friday night rule deactivated.
PartialRules == [k \in RuleKeys \ {<<"fri", "night">>} |-> SeedRules[k]]

NoResp == [op |-> None]

InitStore ==
    /\ bookings = <<>>
    /\ customers = <<>>
    /\ pendings = {}
    /\ promo = [isActive |-> TRUE, expired |-> FALSE,
                discountType |-> "percentage", discountValue |-> 20,
                maxTotalUses |-> 0, usedByCustomers |-> <<>>]
    /\ rules \in {SeedRules, PartialRules}
    /\ strictQuery \in BOOLEAN
    /\ resp = NoResp
    /\ procs = <<>>

-----------------------------------------------------------------------------
(* Mongoose models *)

\* A schema whose amounts have no minimum.
ValidBookingNoMin(doc) ==
    /\ calculateDuration(doc.startTime, doc.endTime) >= MinutesPerHour
    /\ doc.status \in Statuses
    /\ doc.paymentStatus \in PaymentStatuses
    /\ (doc.status # "blocked") => doc.customer # 0

\* BookingSchema validators and the pre-save hook: durationHours >= 1, the
\* three amounts >= 0, and a customer unless the status is blocked.
ValidBooking(doc) ==
    /\ calculateDuration(doc.startTime, doc.endTime) >= MinutesPerHour
    /\ doc.totalPrice >= 0
    /\ doc.discountAmount >= 0
    /\ doc.finalPrice >= 0
    /\ doc.status \in Statuses
    /\ doc.paymentStatus \in PaymentStatuses
    /\ (doc.status # "blocked") => doc.customer # 0

\* BookingSchema declares no paymentId path: the strict schema drops it from
\* the document that is stored.  createdFor records the payment reference the
\* creating handler passed to Booking.create; it is not a stored path.
CastBooking(doc) == [doc EXCEPT !.paymentId = None]

\* Booking.findOne({ paymentId }): 0 when no document is found.  With
\* strictQuery the undeclared path is stripped from the filter and the first
\* document of the collection is returned.
FindOneByPaymentId(paymentId) ==
    IF strictQuery
    THEN IF Len(bookings) > 0 THEN 1 ELSE 0
    ELSE IF \E i \in 1..Len(bookings) : bookings[i].paymentId = paymentId
         THEN CHOOSE i \in 1..Len(bookings) :
                /\ bookings[i].paymentId = paymentId
                /\ \A j \in 1..(i - 1) : bookings[j].paymentId # paymentId
         ELSE 0

NewCustomer(phone) == [phone |-> phone, totalBookings |-> 0]

IncTotalBookings(cs, id) == [cs EXCEPT ![id].totalBookings = @ + 1]

-----------------------------------------------------------------------------
(* Availability checker: BookingService.checkAvailability / Batch *)

\* A query that also returns the cancelled bookings.
AvailabilityQueryAnyStatus(court, day, exclude) ==
    {i \in 1..Len(bookings) :
        /\ bookings[i].court = court
        /\ bookings[i].bookingDate = <<day, 0>>
        /\ i # exclude}

\* The query of checkAvailability: this court, bookingDate equal to the
\* requested day's midnight, not cancelled, not the excluded id (0 = none).
AvailabilityQuery(court, day, exclude) ==
    {i \in 1..Len(bookings) :
        /\ bookings[i].court = court
        /\ bookings[i].bookingDate = <<day, 0>>
        /\ bookings[i].status # "cancelled"
        /\ i # exclude}

checkAvailability(court, day, startTime, endTime, exclude) ==
    LET conflicts ==
            {i \in AvailabilityQuery(court, day, exclude) :
                overlapsHM(startTime, endTime,
                           bookings[i].startTime, bookings[i].endTime)}
    IN  [available |-> conflicts = {}, conflicts |-> conflicts]

\* The query of checkBatchAvailability: bookingDate within the requested
\* day (midnight to 23:59:59.999), not cancelled, one of the courts.
BatchQuery(day, courtIds) ==
    {i \in 1..Len(bookings) :
        /\ bookings[i].bookingDate[1] = day
        /\ bookings[i].status # "cancelled"
        /\ bookings[i].court \in courtIds}

checkBatchAvailability(day, timeSlots, courtIds) ==
    [c \in courtIds |->
        [slot \in timeSlots |->
            [available |->
                ~\E i \in BatchQuery(day, courtIds) :
                    /\ bookings[i].court = c
                    /\ overlapsHM(slot[1], slot[2],
                                  bookings[i].startTime, bookings[i].endTime)]]]

-----------------------------------------------------------------------------
(* Promo code ledger: PromoCodeService *)

InSeq(x, seq) == \E i \in 1..Len(seq) : seq[i] = x

\* A discount that is not clamped to the amount.
calculateDiscountUnclamped(amount, discountType, discountValue) ==
    LET raw == IF discountType = "percentage"
               THEN ((amount * discountValue + 5000) \div 10000) * 100
               ELSE SAR(discountValue)
    IN  [discount |-> raw, finalAmount |-> amount - raw]

\* Math.round(amount * value / 100) in SAR, for amounts in halalas.
calculateDiscount(amount, discountType, discountValue) ==
    LET raw == IF discountType = "percentage"
               THEN ((amount * discountValue + 5000) \div 10000) * 100
               ELSE SAR(discountValue)
        discount == IF raw < amount THEN raw ELSE amount
    IN  [discount |-> discount, finalAmount |-> amount - discount]

\* The checks with the usage cap tested before the customer's own use.
PromoVerdictCapFirst(code, amount, checkPhone, phone) ==
    IF code # PromoCodeId THEN [valid |-> FALSE, message |-> "invalid"]
    ELSE IF ~promo.isActive THEN [valid |-> FALSE, message |-> "inactive"]
    ELSE IF promo.expired THEN [valid |-> FALSE, message |-> "expired"]
    ELSE IF promo.maxTotalUses # 0
            /\ Len(promo.usedByCustomers) >= promo.maxTotalUses
    THEN [valid |-> FALSE, message |-> "limit_reached"]
    ELSE IF checkPhone
            /\ \E id \in 1..Len(customers) :
                  customers[id].phone = phone /\ InSeq(id, promo.usedByCustomers)
    THEN [valid |-> FALSE, message |-> "already_used"]
    ELSE LET d == calculateDiscount(amount, promo.discountType, promo.discountValue)
         IN  [valid |-> TRUE, message |-> "applied", discount |-> d.discount,
              finalAmount |-> d.finalAmount, promoCodeId |-> PromoCodeId]

\* The checks shared by validatePromoCode and validatePromoCodeAdmin;
\* maxTotalUses = 0 stands for null (unlimited).
PromoVerdict(code, amount, checkPhone, phone) ==
    IF code # PromoCodeId THEN [valid |-> FALSE, message |-> "invalid"]
    ELSE IF ~promo.isActive THEN [valid |-> FALSE, message |-> "inactive"]
    ELSE IF promo.expired THEN [valid |-> FALSE, message |-> "expired"]
    ELSE IF checkPhone
            /\ \E id \in 1..Len(customers) :
                  customers[id].phone = phone /\ InSeq(id, promo.usedByCustomers)
    THEN [valid |-> FALSE, message |-> "already_used"]
    ELSE IF promo.maxTotalUses # 0
            /\ Len(promo.usedByCustomers) >= promo.maxTotalUses
    THEN [valid |-> FALSE, message |-> "limit_reached"]
    ELSE LET d == calculateDiscount(amount, promo.discountType, promo.discountValue)
         IN  [valid |-> TRUE, message |-> "applied", discount |-> d.discount,
              finalAmount |-> d.finalAmount, promoCodeId |-> PromoCodeId]

\* A validatePromoCode that skips the per-phone check.
validatePromoCodeAnyPhone(code, customerPhone, bookingAmount) ==
    PromoVerdict(code, bookingAmount, FALSE, customerPhone)

validatePromoCode(code, customerPhone, bookingAmount) ==
    PromoVerdict(code, bookingAmount, TRUE, customerPhone)

\* Called by createManualBooking; it skips the per-phone check.
validatePromoCodeAdmin(code, bookingAmount) ==
    PromoVerdict(code, bookingAmount, FALSE, None)

\* A markAsUsed without the includes check.
markAsUsedUnchecked(p, customerId) ==
    [ok |-> TRUE,
     promo |-> [p EXCEPT !.usedByCustomers = Append(@, customerId)]]

\* A removeUsage that empties the list.
removeUsageAll(p, customerId) == [p EXCEPT !.usedByCustomers = <<>>]

\* markAsUsed: the ledger after the call; it throws (ok = FALSE) when the
\* customer is already in the list.
markAsUsed(p, customerId) ==
    IF InSeq(customerId, p.usedByCustomers)
    THEN [ok |-> FALSE, promo |-> p]
    ELSE [ok |-> TRUE,
          promo |-> [p EXCEPT !.usedByCustomers = Append(@, customerId)]]

removeUsage(p, customerId) ==
    [p EXCEPT !.usedByCustomers = SelectSeq(@, LAMBDA id : id # customerId)]

-----------------------------------------------------------------------------
(* Handlers, each run from request to response without interleaving *)

\* The response: the handler that answered, its outcome, the booking id it
\* reports (0 = none) and the payment reference of the request.
Reply(op, outcome, id, paymentId) ==
    [op |-> op, outcome |-> outcome, id |-> id, paymentId |-> paymentId]

BookingDoc(customer, court, bookingDate, startTime, endTime, totalPrice, promoCodeId, discountAmount, finalPrice, paymentStatus, paymentId, status) ==
    [customer |-> customer, court |-> court, bookingDate |-> bookingDate,
     startTime |-> startTime, endTime |-> endTime,
     totalPrice |-> totalPrice,
     \* pricingResult.breakdown of the interval; [] for a block
     pricingBreakdown |->
        IF status = "blocked" THEN <<>>
        ELSE calculateBookingPrice(rules, bookingDate[1], startTime,
                                   endTime).breakdown,
     promoCode |-> promoCodeId,
     discountAmount |-> discountAmount, finalPrice |-> finalPrice,
     paymentStatus |-> paymentStatus, paymentId |-> paymentId,
     createdFor |-> paymentId, status |-> status]

\* createBooking (booking.controller); paymentId = None when the request
\* carries none.
CreateBooking(court, day, startTime, endTime, phone, code, paymentId, paymentStatus) ==
    LET op == "createBooking"
        existing == IF paymentId # None THEN FindOneByPaymentId(paymentId) ELSE 0
        availability == checkAvailability(court, day, startTime, endTime, 0)
        customerId == Len(customers) + 1
        withCustomer == Append(customers, NewCustomer(phone))
        pricing == calculateBookingPrice(rules, day, startTime, endTime)
        \* validatePromoCode reads the ledger after Customer.create; the new
        \* customer is in no used list
        verdict == IF code # None
                   THEN validatePromoCode(code, phone, pricing.finalPrice)
                   ELSE [valid |-> FALSE]
        applied == code # None /\ verdict.valid
        doc == BookingDoc(customerId, court, <<day, 0>>, startTime, endTime,
                  pricing.finalPrice,
                  IF applied THEN verdict.promoCodeId ELSE None,
                  IF applied THEN verdict.discount ELSE 0,
                  IF applied THEN verdict.finalAmount ELSE pricing.finalPrice,
                  paymentStatus, paymentId,
                  IF paymentStatus = "paid" THEN "confirmed" ELSE "pending")
    IN  IF existing # 0
        THEN /\ resp' = Reply(op, "existing", existing, paymentId)
             /\ UNCHANGED store
        ELSE IF validateBookingTime(startTime, endTime) # "ok"
        THEN /\ resp' = Reply(op, "invalid_interval", 0, paymentId)
             /\ UNCHANGED store
        ELSE IF ~availability.available
        THEN /\ resp' = Reply(op, "conflict", 0, paymentId)
             /\ UNCHANGED store
        ELSE /\ Len(customers) < MaxCustomers
             /\ IF ~pricing.ok
                THEN /\ customers' = withCustomer
                     /\ resp' = Reply(op, "pricing_error", 0, paymentId)
                     /\ UNCHANGED <<bookings, pendings, promo, rules>>
                ELSE /\ Len(bookings) < MaxBookings
                     /\ ValidBooking(doc)
                     /\ bookings' = Append(bookings, CastBooking(doc))
                     /\ promo' = IF applied
                                 THEN markAsUsed(promo, customerId).promo
                                 ELSE promo
                     /\ customers' = IncTotalBookings(withCustomer, customerId)
                     /\ resp' = Reply(op, "created", Len(bookings) + 1, paymentId)
                     /\ UNCHANGED <<pendings, rules>>

\* createManualBooking (booking.controller, admin): a booking for a
\* customer, or a block.
CreateManualBooking(court, day, startTime, endTime, phone, code, isBlocked) ==
    LET op == "createManualBooking"
        availability == checkAvailability(court, day, startTime, endTime, 0)
        customerId == Len(customers) + 1
        withCustomer == Append(customers, NewCustomer(phone))
        pricing == calculateBookingPrice(rules, day, startTime, endTime)
        verdict == IF code # None
                   THEN validatePromoCodeAdmin(code, pricing.finalPrice)
                   ELSE [valid |-> FALSE]
        applied == code # None /\ verdict.valid
        doc == IF isBlocked
               THEN BookingDoc(0, court, <<day, 0>>, startTime, endTime,
                               0, None, 0, 0, "paid", None, "blocked")
               ELSE BookingDoc(customerId, court, <<day, 0>>, startTime,
                       endTime, pricing.finalPrice,
                       IF applied THEN verdict.promoCodeId ELSE None,
                       IF applied THEN verdict.discount ELSE 0,
                       IF applied THEN verdict.finalAmount ELSE pricing.finalPrice,
                       "pending", None, "pending")
    IN  IF validateBookingTime(startTime, endTime) # "ok"
        THEN /\ resp' = Reply(op, "invalid_interval", 0, None)
             /\ UNCHANGED store
        ELSE IF ~availability.available
        THEN /\ resp' = Reply(op, "conflict", 0, None)
             /\ UNCHANGED store
        ELSE IF isBlocked
        THEN /\ Len(bookings) < MaxBookings
             /\ ValidBooking(doc)
             /\ bookings' = Append(bookings, CastBooking(doc))
             /\ resp' = Reply(op, "created", Len(bookings) + 1, None)
             /\ UNCHANGED <<customers, pendings, promo, rules>>
        ELSE /\ Len(customers) < MaxCustomers
             /\ IF ~pricing.ok
                THEN /\ customers' = withCustomer
                     /\ resp' = Reply(op, "pricing_error", 0, None)
                     /\ UNCHANGED <<bookings, pendings, promo, rules>>
                ELSE /\ Len(bookings) < MaxBookings
                     /\ ValidBooking(doc)
                     \* totalBookings is incremented before Booking.create
                     /\ customers' = IncTotalBookings(withCustomer, customerId)
                     /\ bookings' = Append(bookings, CastBooking(doc))
                     /\ promo' = IF applied
                                 THEN markAsUsed(promo, customerId).promo
                                 ELSE promo
                     /\ resp' = Reply(op, "created", Len(bookings) + 1, None)
                     /\ UNCHANGED <<pendings, rules>>

\* BookingService.checkAvailability called with a court, a date, an interval
\* and an optional excludeBookingId (0 = none); the store is only read.
CheckAvailability(court, day, startTime, endTime, exclude) ==
    /\ validateTimeFormat(startTime) /\ validateTimeFormat(endTime)
    /\ resp' = [op |-> "checkAvailability",
                request |-> [court |-> court, day |-> day,
                             startTime |-> startTime, endTime |-> endTime,
                             exclude |-> exclude],
                result |-> checkAvailability(court, day, startTime, endTime,
                                             exclude)]
    /\ UNCHANGED store

\* checkBatchAvailability (booking.controller) for a date, a list of
\* intervals and a list of active courts.
CheckBatchAvailability(day, timeSlots, courtIds) ==
    /\ \A slot \in timeSlots :
          validateTimeFormat(slot[1]) /\ validateTimeFormat(slot[2])
    /\ resp' = [op |-> "checkBatchAvailability",
                request |-> [day |-> day, timeSlots |-> timeSlots,
                             courtIds |-> courtIds],
                result |-> checkBatchAvailability(day, timeSlots, courtIds)]
    /\ UNCHANGED store

\* An updateBookingStatus without the check of the current status.
UpdateBookingStatusUnguarded(id, status) ==
    /\ bookings' = [bookings EXCEPT ![id].status = status]
    /\ resp' = Reply("updateBookingStatus", "updated", id, None)
    /\ UNCHANGED <<customers, pendings, promo, rules>>

\* updateBookingStatus (booking.controller, admin)
UpdateBookingStatus(id, status) ==
    LET op == "updateBookingStatus"
        booking == bookings[id]
        updated == [booking EXCEPT !.status = status]
    IN  IF booking.status = "cancelled" \/ booking.status = "completed"
        THEN /\ resp' = Reply(op, "rejected", id, None)
             /\ UNCHANGED store
        ELSE IF ~ValidBooking(updated)
        THEN /\ resp' = Reply(op, "save_failed", id, None)
             /\ UNCHANGED store
        ELSE /\ bookings' = [bookings EXCEPT ![id] = updated]
             /\ resp' = Reply(op, "updated", id, None)
             /\ UNCHANGED <<customers, pendings, promo, rules>>

\* An updatePayment that confirms the booking whatever its status.
UpdatePaymentConfirmsAll(id, paymentStatus) ==
    /\ bookings' = [bookings EXCEPT
          ![id].paymentStatus = paymentStatus,
          ![id].status = IF paymentStatus \in {"paid", "partial"}
                         THEN "confirmed" ELSE @]
    /\ resp' = Reply("updatePayment", "updated", id, None)
    /\ UNCHANGED <<customers, pendings, promo, rules>>

\* updatePayment (booking.controller, admin)
UpdatePayment(id, paymentStatus) ==
    LET op == "updatePayment"
        booking == bookings[id]
        status == IF paymentStatus \in {"paid", "partial"}
                     /\ booking.status = "pending"
                  THEN "confirmed" ELSE booking.status
        updated == [booking EXCEPT !.paymentStatus = paymentStatus,
                                   !.status = status]
    IN  IF ~ValidBooking(updated)
        THEN /\ resp' = Reply(op, "save_failed", id, None)
             /\ UNCHANGED store
        ELSE /\ bookings' = [bookings EXCEPT ![id] = updated]
             /\ resp' = Reply(op, "updated", id, None)
             /\ UNCHANGED <<customers, pendings, promo, rules>>

\* updateBooking (booking.controller, admin): the body's notes are the only
\* field it assigns, and the model's documents carry no notes.
UpdateBooking(id) ==
    /\ resp' = Reply("updateBooking", "updated", id, None)
    /\ UNCHANGED store

\* A cancelBooking that removes the document.
CancelBookingDeletes(id) ==
    /\ bookings' = SelectSeq(bookings, LAMBDA b : b # bookings[id])
    /\ resp' = Reply("cancelBooking", "cancelled", id, None)
    /\ UNCHANGED <<customers, pendings, promo, rules>>

\* cancelBooking (booking.controller)
CancelBooking(id) ==
    LET op == "cancelBooking"
        booking == bookings[id]
        updated == [booking EXCEPT !.status = "cancelled"]
    IN  IF booking.status = "cancelled" \/ booking.status = "completed"
        THEN /\ resp' = Reply(op, "rejected", id, None)
             /\ UNCHANGED store
        ELSE IF ~ValidBooking(updated)
        THEN /\ resp' = Reply(op, "save_failed", id, None)
             /\ UNCHANGED store
        ELSE /\ bookings' = [bookings EXCEPT ![id] = updated]
             /\ promo' = IF booking.promoCode # None /\ booking.customer # 0
                         THEN removeUsage(promo, booking.customer)
                         ELSE promo
             /\ resp' = Reply(op, "cancelled", id, None)
             /\ UNCHANGED <<customers, pendings, rules>>

\* Payment references the gateway has already handed out.
Issued ==
    {p.paymentId : p \in pendings}
        \cup {bookings[i].createdFor : i \in 1..Len(bookings)}

\* Customer.findOne({ phone }): the first customer with the phone, 0 if none.
FindCustomerByPhone(phone) ==
    IF \E id \in 1..Len(customers) : customers[id].phone = phone
    THEN CHOOSE id \in 1..Len(customers) :
            /\ customers[id].phone = phone
            /\ \A j \in 1..(id - 1) : customers[j].phone # phone
    ELSE 0

\* createPaymentRequest (payment.controller), for a positive amount: the
\* gateway issues a fresh reference and the booking data is parked in a
\* PendingBooking.  date is new Date(metadata.date), not normalised: tc = 0
\* when it is the day's local midnight, 1 when it carries a time of day.
CreatePaymentRequest(paymentId, court, day, tc, slots, phone, code, finalTotal) ==
    LET found == FindCustomerByPhone(phone)
        customerId == IF found # 0 THEN found ELSE Len(customers) + 1
    IN  /\ paymentId \notin Issued
        /\ found = 0 => Len(customers) < MaxCustomers
        /\ customers' = IF found # 0 THEN customers
                        ELSE Append(customers, NewCustomer(phone))
        /\ pendings' = pendings \cup
               {[paymentId |-> paymentId, courtId |-> court,
                 date |-> <<day, tc>>, slots |-> slots,
                 customerId |-> customerId, paymentOption |-> "full",
                 finalTotal |-> finalTotal,
                 promoCodeId |-> IF code = PromoCodeId THEN PromoCodeId ELSE None]}
        /\ resp' = Reply("createPaymentRequest", "requested", 0, paymentId)
        /\ UNCHANGED <<bookings, promo, rules>>

\* The comparator of the webhook's slot sort: hours 0..3 come after 23.
getOrder(h) == IF h >= 0 /\ h <= 3 THEN h + 24 ELSE h

\* sortedSlots[0]
FirstSlot(slots) ==
    CHOOSE a \in slots : \A b \in slots : getOrder(a[1]) <= getOrder(b[1])

\* sortedSlots[sortedSlots.length - 1]
LastSlot(slots) ==
    CHOOSE a \in slots : \A b \in slots : getOrder(b[1]) <= getOrder(a[1])

\* The end time the webhook derives: one hour after the last slot.
SlotsEndTime(slots) == HM((LastSlot(slots)[1] + 1) % 24, LastSlot(slots)[2])

\* The booking the webhook builds from a pending booking and the price.
WebhookBooking(pending, paymentId, totalPrice) ==
    BookingDoc(pending.customerId, pending.courtId, pending.date,
               FirstSlot(pending.slots), SlotsEndTime(pending.slots),
               totalPrice, pending.promoCodeId,
               totalPrice - pending.finalTotal, pending.finalTotal,
               IF pending.paymentOption = "full" THEN "paid" ELSE "partial",
               paymentId, "confirmed")

\* A callback that marks the code as used before it creates the booking.
PaymentCallbackConsumeFirst(paymentId, paid) ==
    LET op == "paymentCallback"
        existing == FindOneByPaymentId(paymentId)
        found == {p \in pendings : p.paymentId = paymentId}
        pending == CHOOSE p \in found : TRUE
        pricing == calculateBookingPrice(rules, pending.date[1],
                       FirstSlot(pending.slots), SlotsEndTime(pending.slots))
        doc == WebhookBooking(pending, paymentId, pricing.finalPrice)
        marked == IF pending.promoCodeId # None
                  THEN markAsUsed(promo, pending.customerId).promo
                  ELSE promo
    IN  IF ~paid
        THEN /\ resp' = Reply(op, "not_paid", 0, paymentId)
             /\ UNCHANGED store
        ELSE IF existing # 0
        THEN /\ resp' = Reply(op, "populate_error", existing, paymentId)
             /\ UNCHANGED store
        ELSE IF found = {}
        THEN /\ resp' = Reply(op, "no_pending", 0, paymentId)
             /\ UNCHANGED store
        ELSE IF ~pricing.ok
        THEN /\ resp' = Reply(op, "pricing_error", 0, paymentId)
             /\ UNCHANGED store
        ELSE IF ~ValidBooking(doc)
        THEN /\ resp' = Reply(op, "save_failed", 0, paymentId)
             /\ promo' = marked
             /\ UNCHANGED <<bookings, customers, pendings, rules>>
        ELSE /\ Len(bookings) < MaxBookings
             /\ bookings' = Append(bookings, CastBooking(doc))
             /\ promo' = marked
             /\ pendings' = pendings \ found
             /\ customers' = IncTotalBookings(customers, pending.customerId)
             /\ resp' = Reply(op, "created", Len(bookings) + 1, paymentId)
             /\ UNCHANGED rules

\* handlePaymentCallback / processWebhookAsync (payment.controller)
PaymentCallback(paymentId, paid) ==
    LET op == "paymentCallback"
        existing == FindOneByPaymentId(paymentId)
        found == {p \in pendings : p.paymentId = paymentId}
        pending == CHOOSE p \in found : TRUE
        pricing == calculateBookingPrice(rules, pending.date[1],
                       FirstSlot(pending.slots), SlotsEndTime(pending.slots))
        doc == WebhookBooking(pending, paymentId, pricing.finalPrice)
    IN  IF ~paid
        THEN /\ resp' = Reply(op, "not_paid", 0, paymentId)
             /\ UNCHANGED store
        ELSE IF existing # 0
        \* populate("courtId") names a path the schema does not declare
        THEN /\ resp' = Reply(op, "populate_error", existing, paymentId)
             /\ UNCHANGED store
        ELSE IF found = {}
        THEN /\ resp' = Reply(op, "no_pending", 0, paymentId)
             /\ UNCHANGED store
        ELSE IF ~pricing.ok
        THEN /\ resp' = Reply(op, "pricing_error", 0, paymentId)
             /\ UNCHANGED store
        ELSE IF ~ValidBooking(doc)
        THEN /\ resp' = Reply(op, "save_failed", 0, paymentId)
             /\ UNCHANGED store
        ELSE /\ Len(bookings) < MaxBookings
             /\ bookings' = Append(bookings, CastBooking(doc))
             /\ promo' = IF pending.promoCodeId # None
                         THEN markAsUsed(promo, pending.customerId).promo
                         ELSE promo
             /\ pendings' = pendings \ found
             /\ customers' = IncTotalBookings(customers, pending.customerId)
             /\ resp' = Reply(op, "created", Len(bookings) + 1, paymentId)
             /\ UNCHANGED rules

-----------------------------------------------------------------------------
(* The requests of the sequential specification *)

\* 18:00-20:00, 19:00-21:00, 23:00-02:00 and 01:00-03:00 on court c1 on
\* Thursday the 12th, 19:00-21:00 on the other court and on the other day,
\* and 05:00-06:00, which starts outside the operating hours.
ReserveRequests ==
    {<<"c1", 12, HM(18, 0), HM(20, 0)>>, <<"c1", 12, HM(19, 0), HM(21, 0)>>,
     <<"c1", 12, HM(23, 0), HM(2, 0)>>, <<"c1", 12, HM(1, 0), HM(3, 0)>>,
     <<"c2", 12, HM(19, 0), HM(21, 0)>>, <<"c1", 13, HM(19, 0), HM(21, 0)>>,
     <<"c1", 12, HM(5, 0), HM(6, 0)>>}

\* The requests of this specification carry no promo code.
ReqCodes == {None}

\* paymentId and paymentStatus of a createBooking request: a pay-at-venue
\* request, or the confirmation page's request after a card payment.
PayInputs == {<<None, "pending">>} \cup {<<p, "paid">> : p \in PaymentIds}

\* The hourly slots a payment request for court c1 on the 12th carries:
\* 19:00-21:00 and 23:00-01:00.
SlotSets == {{HM(19, 0), HM(20, 0)}, {HM(23, 0), HM(0, 0)}}

TimeComponents == {0, 1}

\* The total the client sends with a payment request.
FinalTotals == {SAR(100)}

\* Availability queries: 19:00-21:00 and 01:00-03:00 on court c1 on the
\* 12th, 19:00-21:00 on the other court and day, and one that excludes the
\* first booking.
CheckRequests ==
    {<<"c1", 12, HM(19, 0), HM(21, 0), 0>>, <<"c1", 12, HM(1, 0), HM(3, 0), 0>>,
     <<"c2", 13, HM(19, 0), HM(21, 0), 0>>, <<"c1", 12, HM(19, 0), HM(21, 0), 1>>}

BatchRequests ==
    {<<12, {<<HM(19, 0), HM(21, 0)>>}, {"c1"}>>,
     <<12, {<<HM(18, 0), HM(20, 0)>>, <<HM(1, 0), HM(3, 0)>>}, Courts>>
}

\* The status an admin sends.
StatusUpdates == {"cancelled"}

CreateBookingStep ==
    /\ \E r \in ReserveRequests, phone \in Phones, code \in ReqCodes,
          pay \in PayInputs :
            CreateBooking(r[1], r[2], r[3], r[4], phone, code, pay[1], pay[2])
    /\ UNCHANGED <<strictQuery, procs, call>>

CreateManualBookingStep ==
    /\ \E r \in ReserveRequests, phone \in Phones, code \in ReqCodes,
          isBlocked \in BOOLEAN :
            CreateManualBooking(r[1], r[2], r[3], r[4], phone, code, isBlocked)
    /\ UNCHANGED <<strictQuery, procs, call>>

CheckAvailabilityStep ==
    /\ \E r \in CheckRequests : CheckAvailability(r[1], r[2], r[3], r[4], r[5])
    /\ UNCHANGED <<strictQuery, procs, call>>

CheckBatchAvailabilityStep ==
    /\ \E r \in BatchRequests : CheckBatchAvailability(r[1], r[2], r[3])
    /\ UNCHANGED <<strictQuery, procs, call>>

UpdateBookingStatusStep ==
    /\ \E id \in 1..Len(bookings), status \in StatusUpdates :
          UpdateBookingStatus(id, status)
    /\ UNCHANGED <<strictQuery, procs, call>>

CancelBookingStep ==
    /\ \E id \in 1..Len(bookings) : CancelBooking(id)
    /\ UNCHANGED <<strictQuery, procs, call>>

CreatePaymentRequestStep ==
    /\ \E paymentId \in PaymentIds, tc \in TimeComponents, slots \in SlotSets,
          phone \in Phones, code \in ReqCodes, finalTotal \in FinalTotals :
            CreatePaymentRequest(paymentId, "c1", 12, tc, slots, phone, code,
                                 finalTotal)
    /\ UNCHANGED <<strictQuery, procs, call>>

PaymentCallbackStep ==
    /\ \E paymentId \in PaymentIds, paid \in BOOLEAN :
          PaymentCallback(paymentId, paid)
    /\ UNCHANGED <<strictQuery, procs, call>>

Init == InitStore /\ rules = SeedRules /\ call = [fn |-> None]

Next ==
    \/ CreateBookingStep
    \/ CreateManualBookingStep
    \/ CheckAvailabilityStep
    \/ CheckBatchAvailabilityStep
    \/ UpdateBookingStatusStep
    \/ CancelBookingStep
    \/ CreatePaymentRequestStep
    \/ PaymentCallbackStep

Spec == Init /\ [][Next]_vars

-----------------------------------------------------------------------------
(* Concurrent requests: one step per awaited database operation *)

\* Requests in flight at once.
MaxProcs == 2

\* The overlapping pair 18:00-20:00 and 19:00-21:00 on court c1 on the 12th.
ConcIntervals == {<<HM(18, 0), HM(20, 0)>>, <<HM(19, 0), HM(21, 0)>>}

\* A request in flight: its handler, the await it is about to run, its
\* arguments (none carries a promo code, so the promo blocks of the handlers
\* are not entered), what it has read, and its response once done.
Proc(kind, pc, startTime, endTime, paymentId, paymentStatus, isBlocked) ==
    [kind |-> kind, pc |-> pc, court |-> "c1", day |-> 12,
     startTime |-> startTime, endTime |-> endTime, phone |-> "p1",
     paymentId |-> paymentId, paymentStatus |-> paymentStatus,
     isBlocked |-> isBlocked, customer |-> 0, pending |-> {},
     persisted |-> 0, outcome |-> None, id |-> 0]

Done(proc, outcome, id) == [proc EXCEPT !.pc = "done", !.outcome = outcome, !.id = id]

Reserving(proc) == proc.kind \in {"createBooking", "createManualBooking"}

\* A createBooking request arrives.
SubmitCreateBooking ==
    /\ Len(procs) < MaxProcs
    /\ \E iv \in ConcIntervals, pay \in PayInputs :
          procs' = Append(procs, Proc("createBooking", "lookup", iv[1], iv[2],
                                      pay[1], pay[2], FALSE))
    /\ UNCHANGED <<store, strictQuery, resp, call>>

\* A createManualBooking request arrives.
SubmitManualBooking ==
    /\ Len(procs) < MaxProcs
    /\ \E iv \in ConcIntervals, isBlocked \in BOOLEAN :
          procs' = Append(procs, Proc("createManualBooking", "check", iv[1],
                                      iv[2], None, "pending", isBlocked))
    /\ UNCHANGED <<store, strictQuery, resp, call>>

\* The gateway delivers a paid callback.
SubmitCallback ==
    /\ Len(procs) < MaxProcs
    /\ \E paymentId \in PaymentIds :
          procs' = Append(procs, Proc("paymentCallback", "lookup", HM(0, 0),
                                      HM(0, 0), paymentId, "paid", FALSE))
    /\ UNCHANGED <<store, strictQuery, resp, call>>

\* createPaymentRequest for 19:00-21:00, run without interleaving.
RequestPayment ==
    /\ \E paymentId \in PaymentIds, tc \in TimeComponents, total \in FinalTotals :
          CreatePaymentRequest(paymentId, "c1", 12, tc, {HM(19, 0), HM(20, 0)},
                               "p1", None, total)
    /\ UNCHANGED <<strictQuery, procs, call>>

\* await Booking.findOne({ paymentId }) of createBooking and of the webhook;
\* createBooking then validates the interval before its next await.
LookupStep(i) ==
    LET proc == procs[i]
        existing == IF proc.paymentId # None
                    THEN FindOneByPaymentId(proc.paymentId) ELSE 0
    IN  /\ proc.pc = "lookup"
        /\ procs' = [procs EXCEPT ![i] =
              IF proc.kind = "paymentCallback"
              THEN IF existing # 0 THEN Done(proc, "populate_error", existing)
                   ELSE [proc EXCEPT !.pc = "pending"]
              ELSE IF existing # 0 THEN Done(proc, "existing", existing)
              ELSE IF validateBookingTime(proc.startTime, proc.endTime) # "ok"
              THEN Done(proc, "invalid_interval", 0)
              ELSE [proc EXCEPT !.pc = "check"]]
        /\ UNCHANGED <<store, strictQuery, resp, call>>

\* await BookingService.checkAvailability(...)
CheckStep(i) ==
    LET proc == procs[i]
        availability == checkAvailability(proc.court, proc.day, proc.startTime,
                                          proc.endTime, 0)
    IN  /\ proc.pc = "check"
        /\ procs' = [procs EXCEPT ![i] =
              IF validateBookingTime(proc.startTime, proc.endTime) # "ok"
              THEN Done(proc, "invalid_interval", 0)
              ELSE IF ~availability.available THEN Done(proc, "conflict", 0)
              ELSE IF proc.isBlocked THEN [proc EXCEPT !.pc = "persist"]
              ELSE [proc EXCEPT !.pc = "customer"]]
        /\ UNCHANGED <<store, strictQuery, resp, call>>

\* await Customer.create(...), then the price of the interval.
CustomerStep(i) ==
    LET proc == procs[i]
        pricing == calculateBookingPrice(rules, proc.day, proc.startTime,
                                         proc.endTime)
        created == [proc EXCEPT !.customer = Len(customers) + 1]
    IN  /\ proc.pc = "customer"
        /\ Len(customers) < MaxCustomers
        /\ customers' = Append(customers, NewCustomer(proc.phone))
        /\ procs' = [procs EXCEPT ![i] =
              IF ~pricing.ok THEN Done(created, "pricing_error", 0)
              ELSE IF proc.kind = "createManualBooking"
              THEN [created EXCEPT !.pc = "count"]
              ELSE [created EXCEPT !.pc = "persist"]]
        /\ UNCHANGED <<bookings, pendings, promo, rules, strictQuery, resp, call>>

\* await PendingBooking.findOne(...) of the webhook, then the customer and
\* the price.
PendingStep(i) ==
    LET proc == procs[i]
        found == {p \in pendings : p.paymentId = proc.paymentId}
        pending == CHOOSE p \in found : TRUE
        pricing == calculateBookingPrice(rules, pending.date[1],
                       FirstSlot(pending.slots), SlotsEndTime(pending.slots))
    IN  /\ proc.pc = "pending"
        /\ procs' = [procs EXCEPT ![i] =
              IF found = {} THEN Done(proc, "no_pending", 0)
              ELSE IF ~pricing.ok THEN Done(proc, "pricing_error", 0)
              ELSE [proc EXCEPT !.pc = "persist", !.pending = {pending},
                                !.customer = pending.customerId]]
        /\ UNCHANGED <<store, strictQuery, resp, call>>

\* The document the request passes to Booking.create.
ProcBooking(proc) ==
    IF proc.kind = "paymentCallback"
    THEN LET pending == CHOOSE p \in proc.pending : TRUE
         IN  WebhookBooking(pending, proc.paymentId,
                 calculateBookingPrice(rules, pending.date[1],
                     FirstSlot(pending.slots),
                     SlotsEndTime(pending.slots)).finalPrice)
    ELSE IF proc.isBlocked
    THEN BookingDoc(0, proc.court, <<proc.day, 0>>, proc.startTime,
                    proc.endTime, 0, None, 0, 0, "paid", None, "blocked")
    ELSE LET price == calculateBookingPrice(rules, proc.day, proc.startTime,
                                            proc.endTime).finalPrice
         IN  BookingDoc(proc.customer, proc.court, <<proc.day, 0>>,
                        proc.startTime, proc.endTime, price, None, 0, price,
                        proc.paymentStatus, proc.paymentId,
                        IF proc.paymentStatus = "paid" THEN "confirmed"
                        ELSE "pending")

\* await Booking.create(...)
PersistStep(i) ==
    LET proc == procs[i]
        doc == ProcBooking(proc)
        id == Len(bookings) + 1
    IN  /\ proc.pc = "persist"
        /\ IF ~ValidBooking(doc)
           THEN /\ procs' = [procs EXCEPT ![i] = Done(proc, "save_failed", 0)]
                /\ UNCHANGED bookings
           ELSE /\ Len(bookings) < MaxBookings
                /\ bookings' = Append(bookings, CastBooking(doc))
                /\ procs' = [procs EXCEPT ![i] =
                      IF proc.kind = "paymentCallback"
                      THEN [proc EXCEPT !.pc = "cleanup", !.persisted = id]
                      ELSE IF proc.kind = "createManualBooking"
                      THEN [Done(proc, "created", id) EXCEPT !.persisted = id]
                      ELSE [proc EXCEPT !.pc = "count", !.persisted = id]]
        /\ UNCHANGED <<customers, pendings, promo, rules, strictQuery, resp, call>>

\* await PendingBooking.deleteOne(...) of the webhook
CleanupStep(i) ==
    LET proc == procs[i]
    IN  /\ proc.pc = "cleanup"
        /\ pendings' = {p \in pendings : p.paymentId # proc.paymentId}
        /\ procs' = [procs EXCEPT ![i] = [proc EXCEPT !.pc = "count"]]
        /\ UNCHANGED <<bookings, customers, promo, rules, strictQuery, resp, call>>

\* await Customer.findByIdAndUpdate(id, { $inc: { totalBookings: 1 } });
\* createManualBooking runs it before Booking.create.
CountStep(i) ==
    LET proc == procs[i]
    IN  /\ proc.pc = "count"
        /\ customers' = IncTotalBookings(customers, proc.customer)
        /\ procs' = [procs EXCEPT ![i] =
              IF proc.kind = "createManualBooking"
              THEN [proc EXCEPT !.pc = "persist"]
              ELSE Done(proc, "created", proc.persisted)]
        /\ UNCHANGED <<bookings, pendings, promo, rules, strictQuery, resp, call>>

NextConc ==
    \/ SubmitCreateBooking
    \/ SubmitManualBooking
    \/ SubmitCallback
    \/ RequestPayment
    \/ \E i \in 1..Len(procs) : LookupStep(i)
    \/ \E i \in 1..Len(procs) : CheckStep(i)
    \/ \E i \in 1..Len(procs) : CustomerStep(i)
    \/ \E i \in 1..Len(procs) : PendingStep(i)
    \/ \E i \in 1..Len(procs) : PersistStep(i)
    \/ \E i \in 1..Len(procs) : CleanupStep(i)
    \/ \E i \in 1..Len(procs) : CountStep(i)

SpecConc == Init /\ [][NextConc]_vars

-----------------------------------------------------------------------------
(* Requests that carry a promo code, one at a time *)

\* calculatePrice (public endpoint): the store is only read.
CalculatePrice(day, startTime, endTime) ==
    /\ resp' = [op |-> "calculatePrice",
                request |-> [day |-> day, startTime |-> startTime,
                             endTime |-> endTime],
                result |-> calculateBookingPrice(rules, day, startTime, endTime)]
    /\ UNCHANGED store

\* validatePromoCode (promoCode.controller, public endpoint); the three
\* fields of the body are present.
ValidatePromoCode(code, customerPhone, bookingAmount) ==
    /\ resp' = [op |-> "validatePromoCode",
                request |-> [code |-> code, customerPhone |-> customerPhone,
                             bookingAmount |-> bookingAmount],
                result |-> validatePromoCode(code, customerPhone, bookingAmount)]
    /\ UNCHANGED store

PromoPhones == {"p1", "p2"}
PromoPaymentIds == {"pay1", "pay2"}

\* A request carries the code of the collection or none.
PromoReqCodes == {PromoCodeId, None}

\* Thursday the 12th and Friday the 13th (whose night rule PartialRules lacks).
PromoDays == {12, 13}

\* The totals a payment request carries for 19:00-21:00 (270 before
\* discount): 216 after 20%, and 300, more than the price.
PromoTotals == {SAR(216), SAR(300)}

\* Court and day of the reserve requests, all for 19:00-21:00.
PromoRequests == {<<"c1", 12>>, <<"c1", 13>>}

PromoCreateBookingStep ==
    /\ \E r \in PromoRequests, phone \in PromoPhones, code \in PromoReqCodes :
          CreateBooking(r[1], r[2], HM(19, 0), HM(21, 0), phone, code,
                        None, "pending")
    /\ UNCHANGED <<strictQuery, procs, call>>

PromoManualBookingStep ==
    /\ \E day \in PromoDays :
          CreateManualBooking("c2", day, HM(19, 0), HM(21, 0), "p1",
                              PromoCodeId, FALSE)
    /\ UNCHANGED <<strictQuery, procs, call>>

PromoPaymentRequestStep ==
    /\ \E paymentId \in PromoPaymentIds, finalTotal \in PromoTotals :
          CreatePaymentRequest(paymentId, "c1", 12, 0, {HM(19, 0), HM(20, 0)},
                               "p1", PromoCodeId, finalTotal)
    /\ UNCHANGED <<strictQuery, procs, call>>

PromoPaymentCallbackStep ==
    /\ \E paymentId \in PromoPaymentIds : PaymentCallback(paymentId, TRUE)
    /\ UNCHANGED <<strictQuery, procs, call>>

PromoCancelBookingStep ==
    /\ \E id \in 1..Len(bookings) : CancelBooking(id)
    /\ UNCHANGED <<strictQuery, procs, call>>

ValidatePromoCodeStep ==
    /\ \E phone \in PromoPhones :
          ValidatePromoCode(PromoCodeId, phone, SAR(200))
    /\ UNCHANGED <<strictQuery, procs, call>>

CalculatePriceStep ==
    /\ \E day \in PromoDays : CalculatePrice(day, HM(19, 0), HM(21, 0))
    /\ UNCHANGED <<strictQuery, procs, call>>

InitPromo == InitStore /\ call = [fn |-> None]

NextPromo ==
    \/ PromoCreateBookingStep
    \/ PromoManualBookingStep
    \/ PromoPaymentRequestStep
    \/ PromoPaymentCallbackStep
    \/ PromoCancelBookingStep
    \/ ValidatePromoCodeStep
    \/ CalculatePriceStep

SpecPromo == InitPromo /\ [][NextPromo]_vars

\* The reserve requests and the price endpoint alone.
NextReserve ==
    \/ PromoCreateBookingStep
    \/ PromoManualBookingStep
    \/ PromoPaymentRequestStep
    \/ PromoPaymentCallbackStep
    \/ CalculatePriceStep

SpecReserve == InitPromo /\ [][NextReserve]_vars

-----------------------------------------------------------------------------
-----------------------------------------------------------------------------
(* Reserve requests with a promo code whose maxTotalUses is set *)

\* maxTotalUses of the code of the collection.
CappedUses == 1

\* The collections with a code that was created with maxTotalUses set.
InitCapped ==
    /\ bookings = <<>>
    /\ customers = <<>>
    /\ pendings = {}
    /\ promo = [isActive |-> TRUE, expired |-> FALSE,
                discountType |-> "percentage", discountValue |-> 20,
                maxTotalUses |-> CappedUses, usedByCustomers |-> <<>>]
    /\ rules \in {SeedRules, PartialRules}
    /\ strictQuery \in BOOLEAN
    /\ resp = NoResp
    /\ procs = <<>>
    /\ call = [fn |-> None]

SpecCapped == InitCapped /\ [][NextReserve]_vars

(* Reserve requests while an admin changes the promo code *)

\* togglePromoCodeStatus (promoCode.controller, admin)
TogglePromoCodeStatus ==
    /\ promo' = [promo EXCEPT !.isActive = ~@]
    /\ resp' = [op |-> "togglePromoCodeStatus", isActive |-> ~promo.isActive]
    /\ UNCHANGED <<bookings, customers, pendings, rules>>

\* updatePromoCode (promoCode.controller, admin) with a body that carries
\* maxTotalUses alone (0 for null).
UpdatePromoCode(maxTotalUses) ==
    /\ promo' = [promo EXCEPT !.maxTotalUses = maxTotalUses]
    /\ resp' = [op |-> "updatePromoCode", maxTotalUses |-> maxTotalUses]
    /\ UNCHANGED <<bookings, customers, pendings, rules>>

\* The clock passes expiresAt: new Date() > promoCode.expiresAt from now on.
ExpiryPasses ==
    /\ ~promo.expired
    /\ promo' = [promo EXCEPT !.expired = TRUE]
    /\ UNCHANGED <<bookings, customers, pendings, rules, resp>>

\* The codes a request carries: the code of the collection, a code that no
\* document has, or none.
CodeReqCodes == {PromoCodeId, "NOPE", None}

CodeCourts == {"c1", "c2"}

\* The caps an admin sets: unlimited or one use.
CodeCaps == {0, 1}

\* 19:00-21:00 on Thursday the 12th; call keeps the request.
CodeCreateBookingStep ==
    /\ \E court \in CodeCourts, code \in CodeReqCodes :
          /\ CreateBooking(court, 12, HM(19, 0), HM(21, 0), "p1", code,
                           None, "pending")
          /\ call' = [fn |-> "createBooking", court |-> court, code |-> code,
                      customerPhone |-> "p1"]
    /\ UNCHANGED <<strictQuery, procs>>

TogglePromoCodeStatusStep ==
    /\ TogglePromoCodeStatus
    /\ call' = [fn |-> "togglePromoCodeStatus"]
    /\ UNCHANGED <<strictQuery, procs>>

UpdatePromoCodeStep ==
    /\ \E maxTotalUses \in CodeCaps : UpdatePromoCode(maxTotalUses)
    /\ call' = [fn |-> "updatePromoCode"]
    /\ UNCHANGED <<strictQuery, procs>>

ExpiryPassesStep ==
    /\ ExpiryPasses
    /\ call' = [fn |-> "clock"]
    /\ UNCHANGED <<strictQuery, procs>>

CodeCancelBookingStep ==
    /\ \E id \in 1..Len(bookings) : CancelBooking(id)
    /\ call' = [fn |-> "cancelBooking"]
    /\ UNCHANGED <<strictQuery, procs>>

InitCodes == InitStore /\ rules = SeedRules /\ call = [fn |-> None]

NextCodes ==
    \/ CodeCreateBookingStep
    \/ TogglePromoCodeStatusStep
    \/ UpdatePromoCodeStep
    \/ ExpiryPassesStep
    \/ CodeCancelBookingStep

SpecCodes == InitCodes /\ [][NextCodes]_vars

-----------------------------------------------------------------------------
(* The life of a reservation: status, payment and cancel requests *)

\* The statuses an admin sends to updateBookingStatus.
StatusRequests == {"pending", "confirmed", "completed", "cancelled"}

\* The payment status an admin sends to updatePayment.
PaymentUpdates == {"paid"}

\* A pay-at-venue booking of 19:00-21:00 on Thursday the 12th with the code.
LifeCreateBookingStep ==
    /\ CreateBooking("c1", 12, HM(19, 0), HM(21, 0), "p1", PromoCodeId,
                     None, "pending")
    /\ UNCHANGED <<strictQuery, procs, call>>

\* A block of the other court.
LifeBlockStep ==
    /\ CreateManualBooking("c2", 12, HM(19, 0), HM(21, 0), "p1", None, TRUE)
    /\ UNCHANGED <<strictQuery, procs, call>>

\* A card payment for 21:00-23:00 on court c1.
LifePaymentRequestStep ==
    /\ CreatePaymentRequest("pay1", "c1", 12, 0, {HM(21, 0), HM(22, 0)},
                            "p1", None, SAR(270))
    /\ UNCHANGED <<strictQuery, procs, call>>

LifePaymentCallbackStep ==
    /\ PaymentCallback("pay1", TRUE)
    /\ UNCHANGED <<strictQuery, procs, call>>

LifeUpdateBookingStatusStep ==
    /\ \E id \in 1..Len(bookings), status \in StatusRequests :
          UpdateBookingStatus(id, status)
    /\ UNCHANGED <<strictQuery, procs, call>>

LifeUpdatePaymentStep ==
    /\ \E id \in 1..Len(bookings), paymentStatus \in PaymentUpdates :
          UpdatePayment(id, paymentStatus)
    /\ UNCHANGED <<strictQuery, procs, call>>

LifeUpdateBookingStep ==
    /\ \E id \in 1..Len(bookings) : UpdateBooking(id)
    /\ UNCHANGED <<strictQuery, procs, call>>

LifeCancelBookingStep ==
    /\ \E id \in 1..Len(bookings) : CancelBooking(id)
    /\ UNCHANGED <<strictQuery, procs, call>>

InitLife == InitStore /\ rules = SeedRules /\ call = [fn |-> None]

NextLife ==
    \/ LifeCreateBookingStep
    \/ LifeBlockStep
    \/ LifePaymentRequestStep
    \/ LifePaymentCallbackStep
    \/ LifeUpdateBookingStatusStep
    \/ LifeUpdatePaymentStep
    \/ LifeUpdateBookingStep
    \/ LifeCancelBookingStep

SpecLife == InitLife /\ [][NextLife]_vars

-----------------------------------------------------------------------------
(* Reserve requests with intervals that validateBookingTime rejects *)

\* 19:00-21:00 and 23:00-01:00, and three intervals that are rejected:
\* 19:00-19:30 (under an hour), 19:00-20:15 (not a multiple of 30 minutes)
\* and 05:00-06:00 (starts outside the operating hours).
IntervalRequests ==
    {<<HM(19, 0), HM(21, 0)>>, <<HM(23, 0), HM(1, 0)>>,
     <<HM(19, 0), HM(19, 30)>>, <<HM(19, 0), HM(20, 15)>>,
     <<HM(5, 0), HM(6, 0)>>}

\* The slots of a payment request: 19:00 and 20:00, or 05:00 alone.
IntervalSlotSets == {{HM(19, 0), HM(20, 0)}, {HM(5, 0)}}

IntervalCreateBookingStep ==
    /\ \E r \in IntervalRequests, pay \in PayInputs :
          CreateBooking("c1", 12, r[1], r[2], "p1", None, pay[1], pay[2])
    /\ UNCHANGED <<strictQuery, procs, call>>

IntervalManualBookingStep ==
    /\ \E r \in IntervalRequests, isBlocked \in BOOLEAN :
          CreateManualBooking("c2", 12, r[1], r[2], "p1", None, isBlocked)
    /\ UNCHANGED <<strictQuery, procs, call>>

IntervalPaymentRequestStep ==
    /\ \E paymentId \in PromoPaymentIds, slots \in IntervalSlotSets :
          CreatePaymentRequest(paymentId, "c1", 11, 0, slots, "p1", None,
                               SAR(100))
    /\ UNCHANGED <<strictQuery, procs, call>>

IntervalPaymentCallbackStep ==
    /\ \E paymentId \in PromoPaymentIds, paid \in BOOLEAN :
          PaymentCallback(paymentId, paid)
    /\ UNCHANGED <<strictQuery, procs, call>>

InitIntervals == InitStore /\ rules = SeedRules /\ call = [fn |-> None]

NextIntervals ==
    \/ IntervalCreateBookingStep
    \/ IntervalManualBookingStep
    \/ IntervalPaymentRequestStep
    \/ IntervalPaymentCallbackStep

SpecIntervals == InitIntervals /\ [][NextIntervals]_vars

-----------------------------------------------------------------------------
(* Payment updates on reservations in every status *)

\* The payment statuses an admin reports.
PaymentReports == {"paid", "partial"}

\* The statuses an admin sets between the payment updates.
PayStatuses == {"confirmed", "completed", "cancelled", "no-show"}

PayUpdateBookingStatusStep ==
    /\ \E id \in 1..Len(bookings), status \in PayStatuses :
          UpdateBookingStatus(id, status)
    /\ UNCHANGED <<strictQuery, procs, call>>

PayUpdatePaymentStep ==
    /\ \E id \in 1..Len(bookings), paymentStatus \in PaymentReports :
          UpdatePayment(id, paymentStatus)
    /\ UNCHANGED <<strictQuery, procs, call>>

NextPayments ==
    \/ LifeCreateBookingStep
    \/ LifeBlockStep
    \/ LifePaymentRequestStep
    \/ LifePaymentCallbackStep
    \/ PayUpdateBookingStatusStep
    \/ PayUpdatePaymentStep

SpecPayments == InitLife /\ [][NextPayments]_vars

-----------------------------------------------------------------------------
(* Reserve, cancel and reserve again *)

\* 19:00-21:00, 20:00-22:00 and 23:00-01:00 on court c1 on Thursday the
\* 12th.
CancelIntervals ==
    {<<HM(19, 0), HM(21, 0)>>, <<HM(20, 0), HM(22, 0)>>,
     <<HM(23, 0), HM(1, 0)>>}

\* call keeps the request.
AgainCreateBookingStep ==
    /\ \E r \in CancelIntervals :
          /\ CreateBooking("c1", 12, r[1], r[2], "p1", None, None, "pending")
          /\ call' = [fn |-> "createBooking", court |-> "c1", day |-> 12,
                      startTime |-> r[1], endTime |-> r[2]]
    /\ UNCHANGED <<strictQuery, procs>>

AgainCancelBookingStep ==
    /\ \E id \in 1..Len(bookings) : CancelBooking(id)
    /\ call' = [fn |-> "cancelBooking"]
    /\ UNCHANGED <<strictQuery, procs>>

AgainCheckAvailabilityStep ==
    /\ \E r \in CancelIntervals : CheckAvailability("c1", 12, r[1], r[2], 0)
    /\ call' = [fn |-> "checkAvailability"]
    /\ UNCHANGED <<strictQuery, procs>>

AgainCheckBatchAvailabilityStep ==
    /\ CheckBatchAvailability(12, CancelIntervals, {"c1"})
    /\ call' = [fn |-> "checkBatchAvailability"]
    /\ UNCHANGED <<strictQuery, procs>>

NextAgain ==
    \/ AgainCreateBookingStep
    \/ AgainCancelBookingStep
    \/ AgainCheckAvailabilityStep
    \/ AgainCheckBatchAvailabilityStep

SpecAgain == InitLife /\ [][NextAgain]_vars

-----------------------------------------------------------------------------
(* Concurrent markAsUsed calls: one step per awaited database operation *)

\* The customer records whose handlers call markAsUsed.
ConsumeCustomers == {1, 2, 3}

\* A markAsUsed call in flight for the code of the collection.
ConsumeCall(customerId, pc, outcome) ==
    [fn |-> "markAsUsed", customerId |-> customerId, pc |-> pc,
     outcome |-> outcome]

SubmitMarkAsUsed ==
    /\ Len(procs) < MaxProcs
    /\ \E customerId \in ConsumeCustomers :
          procs' = Append(procs, ConsumeCall(customerId, "find", None))
    /\ UNCHANGED <<store, strictQuery, resp, call>>

\* await PromoCode.findById and the includes check on the document read.
FindPromoStep(i) ==
    /\ procs[i].pc = "find"
    /\ procs' = [procs EXCEPT ![i] =
          IF InSeq(procs[i].customerId, promo.usedByCustomers)
          THEN ConsumeCall(procs[i].customerId, "done", "already_used")
          ELSE ConsumeCall(procs[i].customerId, "save", None)]
    /\ UNCHANGED <<store, strictQuery, resp, call>>

\* usedByCustomers.push and await promoCode.save(): the push is sent as a
\* $push, which appends to the array as stored at that moment.
SavePromoStep(i) ==
    /\ procs[i].pc = "save"
    /\ promo' = [promo EXCEPT
          !.usedByCustomers = Append(@, procs[i].customerId)]
    /\ procs' = [procs EXCEPT
          ![i] = ConsumeCall(procs[i].customerId, "done", "marked")]
    /\ UNCHANGED <<bookings, customers, pendings, rules, strictQuery, resp, call>>

FindPromo == \E i \in 1..Len(procs) : FindPromoStep(i)

SavePromo == \E i \in 1..Len(procs) : SavePromoStep(i)

NextConsume == SubmitMarkAsUsed \/ FindPromo \/ SavePromo

SpecConsume == InitPromo /\ [][NextConsume]_vars

-----------------------------------------------------------------------------
(* PromoCodeService.markAsUsed and removeUsage called one after another *)

\* Calls in one run of the ledger specification.
MaxCalls == 3

\* The id of the code of the collection and the id of a deleted code.
LedgerCodeIds == {PromoCodeId, "GONE"}

\* One finished call: its arguments, how it ended, and usedByCustomers as
\* stored before and after it.
LedgerEntry(fn, promoCodeId, customerId, outcome, after) ==
    [fn |-> fn, promoCodeId |-> promoCodeId, customerId |-> customerId,
     outcome |-> outcome, before |-> promo.usedByCustomers, after |-> after]

\* markAsUsed(promoCodeId, customerId): NotFoundError for a missing code,
\* BadRequestError when the customer is already in the list.
MarkAsUsed(promoCodeId, customerId) ==
    LET marked == markAsUsed(promo, customerId)
        outcome == IF promoCodeId # PromoCodeId THEN "not_found"
                   ELSE IF ~marked.ok THEN "already_used"
                   ELSE "marked"
    IN  /\ promo' = IF outcome = "marked" THEN marked.promo ELSE promo
        /\ call' = [call EXCEPT !.log = Append(@,
              LedgerEntry("markAsUsed", promoCodeId, customerId, outcome,
                          promo'.usedByCustomers))]

\* removeUsage(promoCodeId, customerId): returns at once for a missing
\* code, filters the list and saves otherwise.
RemoveUsage(promoCodeId, customerId) ==
    /\ promo' = IF promoCodeId # PromoCodeId THEN promo
                ELSE removeUsage(promo, customerId)
    /\ call' = [call EXCEPT !.log = Append(@,
          LedgerEntry("removeUsage", promoCodeId, customerId, "returned",
                      promo'.usedByCustomers))]

MarkAsUsedStep ==
    /\ Len(call.log) < MaxCalls
    /\ \E promoCodeId \in LedgerCodeIds, customerId \in ConsumeCustomers :
          MarkAsUsed(promoCodeId, customerId)
    /\ UNCHANGED <<bookings, customers, pendings, rules, strictQuery, resp, procs>>

RemoveUsageStep ==
    /\ Len(call.log) < MaxCalls
    /\ \E promoCodeId \in LedgerCodeIds, customerId \in ConsumeCustomers :
          RemoveUsage(promoCodeId, customerId)
    /\ UNCHANGED <<bookings, customers, pendings, rules, strictQuery, resp, procs>>

InitLedger == InitStore /\ call = [fn |-> "ledger", log |-> <<>>]

NextLedger == MarkAsUsedStep \/ RemoveUsageStep

SpecLedger == InitLedger /\ [][NextLedger]_vars

-----------------------------------------------------------------------------
(* Applications of validatePromoCode and calculateDiscount *)

\* discountValue of a stored code; the pre-save hook keeps a percentage at
\* or below 100.
DiscountValues == {20, 100, 250}

\* maxTotalUses: null (0), 1 or 2.
UseCaps == {0, 1, 2}

\* usedByCustomers of the stored code, over customer records 1 and 2.
Ledgers == {<<>>, <<1>>, <<2>>, <<1, 2>>}

\* Two customer records: both of phone p1, or one of p1 and one of p2.
CustomerSets ==
    {<<NewCustomer("p1"), NewCustomer("p1")>>,
     <<NewCustomer("p1"), NewCustomer("p2")>>}

\* bookingAmount in halalas: 0, 50, 200 and 202.50 SAR.
Amounts == {0, SAR(50), SAR(200), 20250}

InitPromoPure ==
    /\ bookings = <<>>
    /\ pendings = {}
    /\ rules = SeedRules
    /\ strictQuery = FALSE
    /\ resp = NoResp
    /\ procs = <<>>
    /\ call = [fn |-> None]
    /\ customers \in CustomerSets
    /\ \E isActive \in BOOLEAN, expired \in BOOLEAN,
          discountType \in {"percentage", "fixed"},
          discountValue \in DiscountValues, maxTotalUses \in UseCaps,
          usedByCustomers \in Ledgers :
            /\ discountType = "percentage" => discountValue <= 100
            /\ promo = [isActive |-> isActive, expired |-> expired,
                        discountType |-> discountType,
                        discountValue |-> discountValue,
                        maxTotalUses |-> maxTotalUses,
                        usedByCustomers |-> usedByCustomers]

CallValidate ==
    /\ call.fn = None
    /\ \E code \in {PromoCodeId, "OTHER"}, phone \in PromoPhones,
          amount \in Amounts :
            call' = [fn |-> "validatePromoCode", code |-> code,
                     customerPhone |-> phone, bookingAmount |-> amount,
                     result |-> validatePromoCode(code, phone, amount)]
    /\ UNCHANGED <<store, strictQuery, resp, procs>>

CallDiscount ==
    /\ call.fn = None
    /\ \E amount \in Amounts, discountType \in {"percentage", "fixed"},
          discountValue \in DiscountValues :
            /\ discountType = "percentage" => discountValue <= 100
            /\ call' = [fn |-> "calculateDiscount", amount |-> amount,
                        discountType |-> discountType,
                        discountValue |-> discountValue,
                        result |-> calculateDiscount(amount, discountType,
                                                     discountValue)]
    /\ UNCHANGED <<store, strictQuery, resp, procs>>

NextPromoPure == CallValidate \/ CallDiscount

SpecPromoPure == InitPromoPure /\ [][NextPromoPure]_vars

-----------------------------------------------------------------------------
(* Applications of the pure functions *)

TimeGrid ==
    {HM(0, 0), HM(1, 0), HM(2, 0), HM(3, 0), HM(9, 0), HM(18, 0), HM(19, 0),
     HM(20, 0), HM(21, 0), HM(22, 30), HM(23, 0)}

PriceDays == {11, 12, 13, 14, 15, 28}

InitPure ==
    /\ InitStore
    /\ call = [fn |-> None]

CallOverlap ==
    /\ call.fn = None
    /\ \E s1 \in TimeGrid, e1 \in TimeGrid, s2 \in TimeGrid, e2 \in TimeGrid :
          call' = [fn |-> "timeSlotsOverlap",
                   a |-> [start |-> timeToMinutes(s1), end |-> timeToMinutes(e1)],
                   b |-> [start |-> timeToMinutes(s2), end |-> timeToMinutes(e2)],
                   ab |-> overlapsHM(s1, e1, s2, e2),
                   ba |-> overlapsHM(s2, e2, s1, e1),
                   aa |-> overlapsHM(s1, e1, s1, e1)]
    /\ UNCHANGED <<store, strictQuery, resp, procs>>

\* The end times of the priced intervals: the grid and 11:00.
PriceEnds == TimeGrid \cup {HM(11, 0)}

CallPrice ==
    /\ call.fn = None
    /\ \E day \in PriceDays, s \in TimeGrid, e \in PriceEnds :
          call' = [fn |-> "calculateBookingPrice", bookingDay |-> day,
                   startTime |-> s, endTime |-> e,
                   result |-> calculateBookingPrice(rules, day, s, e)]
    /\ UNCHANGED <<store, strictQuery, resp, procs>>

\* validateBookingTime and calculateDuration applied to an interval.
CallValidateTime ==
    /\ call.fn = None
    /\ \E s \in TimeGrid, e \in PriceEnds :
          call' = [fn |-> "validateBookingTime", startTime |-> s,
                   endTime |-> e, result |-> validateBookingTime(s, e),
                   duration |-> calculateDuration(s, e)]
    /\ UNCHANGED <<store, strictQuery, resp, procs>>

\* The grid with a start on the half hour before the 19:00 rate change.
SplitGrid == TimeGrid \cup {HM(17, 30)}

\* The clock-hour boundaries at which an interval is split.
SplitHours == {t \in SplitGrid : t[2] = 0}

\* calculateBookingPrice applied to an interval and to the two parts a
\* clock-hour boundary cuts it into, for one nominal date and rule table.
CallPriceSplit ==
    /\ call.fn = None
    /\ \E day \in PriceDays, s \in SplitGrid, m \in SplitHours, e \in SplitGrid :
          call' = [fn |-> "calculateBookingPriceSplit", bookingDay |-> day,
                   startTime |-> s, splitAt |-> m, endTime |-> e,
                   whole |-> calculateBookingPrice(rules, day, s, e),
                   left |-> calculateBookingPrice(rules, day, s, m),
                   right |-> calculateBookingPrice(rules, day, m, e)]
    /\ UNCHANGED <<store, strictQuery, resp, procs>>

NextPure == CallOverlap \/ CallPrice \/ CallPriceSplit \/ CallValidateTime

SpecPure == InitPure /\ [][NextPure]_vars

-----------------------------------------------------------------------------
(* Claims about the overlap detector *)

IsOverlapCall == call.fn = "timeSlotsOverlap"

NonCrossing(i) == i.start < i.end
Crossing(i) == i.end < i.start

\* C3: when exactly one of the two intervals crosses midnight, overlaps is
\* true iff the non-crossing interval meets one of the crossing interval's
\* two ranges [start, 24:00) and [00:00, end); so 23:00-02:00 and 01:00-03:00
\* overlap.
C3_MixedCaseMatchesRanges ==
    (IsOverlapCall /\ ((Crossing(call.a) /\ NonCrossing(call.b))
                        \/ (NonCrossing(call.a) /\ Crossing(call.b))))
    => (call.ab = Intersects(call.a.start, call.a.end, call.b.start, call.b.end))

\* C4: for two intervals that do not cross midnight, overlaps(a, b) equals
\* a.start < b.end /\ a.end > b.start; intervals touching at an endpoint do
\* not overlap.
C4_PlainCaseIsClassicTest ==
    (IsOverlapCall /\ call.a.start <= call.a.end /\ call.b.start <= call.b.end)
    => /\ call.ab = (call.a.start < call.b.end /\ call.a.end > call.b.start)
       /\ (call.a.end = call.b.start \/ call.b.end = call.a.start) => ~call.ab

C4_Witness ==
    /\ IsOverlapCall
    /\ NonCrossing(call.a) /\ NonCrossing(call.b)
    /\ call.a.end = call.b.start
    /\ ~call.ab

\* C5: overlaps is symmetric for all intervals, crossing or not, and every
\* interval of non-zero duration overlaps itself.
C5_SymmetricAndReflexive ==
    IsOverlapCall
    => /\ call.ab = call.ba
       /\ (call.a.start # call.a.end) => call.aa

C5_Witness ==
    /\ IsOverlapCall
    /\ NonCrossing(call.a) /\ Crossing(call.b)
    /\ call.ab /\ call.ba /\ call.aa

-----------------------------------------------------------------------------
(* Claims about the reservation store *)

\* Whether bookings i and j hold the same court on the same calendar day for
\* intersecting minute ranges, neither being cancelled.
Clash(i, j) ==
    /\ bookings[i].status # "cancelled"
    /\ bookings[j].status # "cancelled"
    /\ bookings[i].court = bookings[j].court
    /\ bookings[i].bookingDate[1] = bookings[j].bookingDate[1]
    /\ Intersects(timeToMinutes(bookings[i].startTime),
                  timeToMinutes(bookings[i].endTime),
                  timeToMinutes(bookings[j].startTime),
                  timeToMinutes(bookings[j].endTime))

\* C1: in every state reached by requests executed one at a time, no two
\* non-cancelled reservations on the same court and booking date occupy
\* overlapping intervals, midnight-crossing intervals included.
C1_NoOverlappingReservations ==
    \A i \in 1..Len(bookings), j \in 1..Len(bookings) : i < j => ~Clash(i, j)

\* The reservations that checkAvailability is to report for a request: on the
\* court and the date, not cancelled, not the excluded id, and overlapping.
ExpectedConflicts(q) ==
    {i \in 1..Len(bookings) :
        /\ bookings[i].court = q.court
        /\ bookings[i].bookingDate[1] = q.day
        /\ bookings[i].status # "cancelled"
        /\ i # q.exclude
        /\ Intersects(timeToMinutes(q.startTime), timeToMinutes(q.endTime),
                      timeToMinutes(bookings[i].startTime),
                      timeToMinutes(bookings[i].endTime))}

\* C6: checkAvailability answers available = false exactly when some
\* non-cancelled reservation on the court and date, other than the excluded
\* one, overlaps the interval, and its conflicts are all such reservations.
C6_ConflictsAreAllOverlapping ==
    resp.op = "checkAvailability"
    => /\ resp.result.conflicts = ExpectedConflicts(resp.request)
       /\ resp.result.available = (ExpectedConflicts(resp.request) = {})

CreatedFor(paymentId) ==
    {i \in 1..Len(bookings) : bookings[i].createdFor = paymentId}

\* C9: a createBooking request whose paymentId is already carried by a stored
\* reservation returns that reservation and leaves the store unchanged.
C9_ReplayLeavesStoreUnchanged ==
    [][(/\ resp'.op = "createBooking"
        /\ resp'.paymentId # None
        /\ CreatedFor(resp'.paymentId) # {})
       => (/\ resp'.outcome = "existing"
           /\ resp'.id \in CreatedFor(resp'.paymentId)
           /\ store' = store)]_vars

-----------------------------------------------------------------------------
(* Claims about concurrent requests *)

\* Two reserve requests for overlapping intervals on the same court and date.
Competing(i, j) ==
    /\ Reserving(procs[i]) /\ Reserving(procs[j])
    /\ procs[i].court = procs[j].court
    /\ procs[i].day = procs[j].day
    /\ Intersects(timeToMinutes(procs[i].startTime),
                  timeToMinutes(procs[i].endTime),
                  timeToMinutes(procs[j].startTime),
                  timeToMinutes(procs[j].endTime))

\* C2: of two concurrent reserve requests for overlapping intervals on the
\* same court and date, at most one persists a reservation under every
\* interleaving, and the other, once answered, is rejected with Conflict.
C2_CheckAndWriteAreAtomic ==
    \A i \in 1..Len(procs), j \in 1..Len(procs) :
        (i # j /\ Competing(i, j) /\ procs[i].persisted # 0)
        => /\ procs[j].persisted = 0
           /\ (procs[j].pc = "done" /\ procs[j].paymentId = None)
              => procs[j].outcome = "conflict"

-----------------------------------------------------------------------------
(* Claims about the pricing walk *)

IsPriceCall == call.fn = "calculateBookingPrice" /\ call.result.ok

EarlySegments ==
    {i \in 1..Len(call.result.breakdown) :
        HourOf(call.result.breakdown[i].from) < EarlyMorningEndHour}

\* C10 as stated: an early-morning segment (00:00-04:00) on the nominal date
\* uses the nominal date's day-bucket, and one whose calendar date is past
\* the nominal date uses the next day's day-bucket.
C10_PastMidnightUsesNextDay ==
    IsPriceCall =>
        \A i \in EarlySegments :
            LET seg == call.result.breakdown[i]
            IN  /\ DayOf(seg.from) = call.bookingDay
                   => seg.days = getDays(call.bookingDay)
                /\ DayOf(seg.from) # call.bookingDay
                   => seg.days = getDays(call.bookingDay + 1)

\* C10 amended: every early-morning segment uses the nominal date's
\* day-bucket, whether it lies on the nominal date or on the day after it
\* (where the segment's date is rewound by one day).
C10_EarlySegmentsUseNominalDay ==
    IsPriceCall =>
        \A i \in EarlySegments :
            LET seg == call.result.breakdown[i]
            IN  /\ DayOf(seg.from) \in {call.bookingDay, call.bookingDay + 1}
                /\ seg.days = getDays(call.bookingDay)
                /\ DayOf(seg.from) # call.bookingDay
                   => seg.days = getDays(DayOf(seg.from) - 1)

C10_Witness ==
    /\ IsPriceCall
    /\ getDays(call.bookingDay) # getDays(call.bookingDay + 1)
    /\ getDays(call.bookingDay) # getDays(call.bookingDay - 1)
    /\ \E i \in EarlySegments : DayOf(call.result.breakdown[i].from) = call.bookingDay + 1
    /\ \E i \in EarlySegments : DayOf(call.result.breakdown[i].from) = call.bookingDay

-----------------------------------------------------------------------------
(* Claims about the price total *)

IsSplitCall == call.fn = "calculateBookingPriceSplit"

\* Minutes from clock time `from` forward to clock time `to`.
Forward(from, to) ==
    (timeToMinutes(to) - timeToMinutes(from) + MinutesPerDay) % MinutesPerDay

\* The split point lies strictly inside the interval (an end equal to the
\* start is an interval of a whole day).
SplitInside ==
    LET whole == Forward(call.startTime, call.endTime)
        length == IF whole = 0 THEN MinutesPerDay ELSE whole
        cut == Forward(call.startTime, call.splitAt)
    IN  0 < cut /\ cut < length

\* C11: price is additive. For every interval and every clock-hour boundary
\* inside it such that the whole and both parts are priceable, the total of
\* the whole equals the sum of the totals of the two parts (same nominal
\* date, same rule table), also for intervals that start on a half hour and
\* for intervals that cross 19:00 or midnight.
C11_PriceIsAdditive ==
    (/\ IsSplitCall /\ SplitInside
     /\ call.whole.ok /\ call.left.ok /\ call.right.ok)
    => call.whole.finalPrice = call.left.finalPrice + call.right.finalPrice

\* The segment the walk must produce at position i of an interval that
\* starts at instant `from` and ends at instant `to`.
ExpectedFrom(from, i) == from + (i - 1) * MinutesPerHour
ExpectedTo(from, to, i) ==
    IF from + i * MinutesPerHour > to THEN to ELSE from + i * MinutesPerHour

RECURSIVE RateTimesHours(_, _, _)
\* Sum over the segments i..Len of rate(day-bucket, time-bucket) * hours.
RateTimesHours(breakdown, table, i) ==
    IF i > Len(breakdown) THEN 0
    ELSE (SAR(table[<<breakdown[i].days, breakdown[i].timeSlot>>])
             * (breakdown[i].to - breakdown[i].from)) \div MinutesPerHour
         + RateTimesHours(breakdown, table, i + 1)

\* C12: calculateBookingPrice returns one segment per started hour counted
\* from the start time, each classified by the day-bucket of its effective
\* date and the time-bucket of its starting hour, and a total equal to the
\* sum over the segments of the active rule's pricePerHour times the
\* segment's duration in hours; Thursday 09:00-11:00 with thu/day = 90 gives
\* two one-hour segments of rate 90 and a total of 180.
C12_TotalIsSumOfSegments ==
    IsPriceCall =>
        LET r == call.result
            from == At(call.bookingDay, call.startTime)
            to == from + r.totalMinutes
            n == (r.totalMinutes + MinutesPerHour - 1) \div MinutesPerHour
        IN  /\ Len(r.breakdown) = n
            /\ \A i \in 1..n :
                  /\ r.breakdown[i].from = ExpectedFrom(from, i)
                  /\ r.breakdown[i].to = ExpectedTo(from, to, i)
                  /\ r.breakdown[i].timeSlot
                        = getTimeSlot(HourOf(r.breakdown[i].from))
                  /\ r.breakdown[i].days
                        = getDays(getEffectiveDate(r.breakdown[i].from,
                                                   call.bookingDay))
                  /\ <<r.breakdown[i].days, r.breakdown[i].timeSlot>>
                        \in DOMAIN rules
            /\ r.finalPrice = RateTimesHours(r.breakdown, rules, 1)
            /\ (/\ call.bookingDay = 12
                 /\ call.startTime = HM(9, 0) /\ call.endTime = HM(11, 0))
               => /\ n = 2
                  /\ \A i \in 1..2 :
                        /\ r.breakdown[i].to - r.breakdown[i].from = MinutesPerHour
                        /\ rules[<<r.breakdown[i].days, r.breakdown[i].timeSlot>>] = 90
                  /\ r.finalPrice = SAR(180)

\* Thursday 09:00-11:00 has been priced at 180.
C12_Witness ==
    /\ IsPriceCall
    /\ call.bookingDay = 12
    /\ call.startTime = HM(9, 0) /\ call.endTime = HM(11, 0)
    /\ Len(call.result.breakdown) = 2
    /\ call.result.finalPrice = SAR(180)

-----------------------------------------------------------------------------
(* Claims about missing pricing rules *)

\* Every hourly step of the interval maps to a (day-bucket, time-bucket)
\* pair that has an active rule in the table.
Covered(table, day, startTime, endTime) ==
    LET from == At(day, startTime)
        endAt == At(day, endTime)
        to == IF endAt <= from THEN endAt + MinutesPerDay ELSE endAt
    IN  \A k \in 0..23 :
            LET t == from + k * MinutesPerHour
            IN  t < to =>
                  <<getDays(getEffectiveDate(t, day)), getTimeSlot(HourOf(t))>>
                      \in DOMAIN table

\* C13: if any segment of the requested interval maps to a (day-bucket,
\* time-bucket) pair with no active rule, price fails with an error and
\* returns no total (no default and no zero rate stands in for the rule),
\* and a reserve request that hits the error persists no reservation: every
\* priced reservation of the store lies wholly on active rules.
C13_MissingRuleFailsPricing ==
    /\ resp.op = "calculatePrice" =>
          LET q == resp.request
          IN  IF Covered(rules, q.day, q.startTime, q.endTime)
              THEN resp.result.ok
              ELSE /\ ~resp.result.ok
                   /\ resp.result.error = "rule_not_found"
                   /\ "finalPrice" \notin DOMAIN resp.result
    /\ (resp.op \in {"createBooking", "createManualBooking", "paymentCallback"}
          /\ resp.outcome = "pricing_error") => resp.id = 0
    /\ \A i \in 1..Len(bookings) :
          bookings[i].status # "blocked" =>
              Covered(rules, bookings[i].bookingDate[1],
                      bookings[i].startTime, bookings[i].endTime)

\* A reserve request for Friday night was answered with the pricing error
\* while the Friday night rule is inactive, and the store holds no
\* reservation for that day.
C13_Witness ==
    /\ rules = PartialRules
    /\ resp.op = "createBooking" /\ resp.outcome = "pricing_error"
    /\ ~Covered(rules, 13, HM(19, 0), HM(21, 0))
    /\ \A i \in 1..Len(bookings) : bookings[i].bookingDate[1] # 13

-----------------------------------------------------------------------------
(* Claims about the promo ledger under whole requests *)

\* Reservation i consumed the code when it was created: it holds the code
\* and no earlier reservation of its customer record holds it, so its
\* customer was not in usedByCustomers when markAsUsed ran.
Consumed(i) ==
    /\ bookings[i].promoCode = PromoCodeId
    /\ bookings[i].customer # 0
    /\ \A j \in 1..(i - 1) :
          bookings[j].customer = bookings[i].customer
              => bookings[j].promoCode # PromoCodeId

-----------------------------------------------------------------------------
(* Claims about concurrent consumption *)

\* C15: the consume step checks "customer has not used this code" and
\* appends the customer as one atomic conditional update: of the concurrent
\* consume calls for the same code and customer exactly one succeeds, and
\* in every reachable state a customer id appears at most once in
\* usedByCustomers.
C15_ConsumeIsAtomic ==
    /\ \A m, n \in 1..Len(promo.usedByCustomers) :
          promo.usedByCustomers[m] = promo.usedByCustomers[n] => m = n
    /\ \A i, j \in 1..Len(procs) :
          (/\ i # j
           /\ procs[i].customerId = procs[j].customerId
           /\ procs[i].pc = "done" /\ procs[j].pc = "done")
          => ~(procs[i].outcome = "marked" /\ procs[j].outcome = "marked")

-----------------------------------------------------------------------------
(* Claims about consume and release called in sequence *)

Consume(k, c) ==
    /\ call.log[k].fn = "markAsUsed"
    /\ call.log[k].promoCodeId = PromoCodeId
    /\ call.log[k].customerId = c

Release(k, c) ==
    /\ call.log[k].fn = "removeUsage"
    /\ call.log[k].promoCodeId = PromoCodeId
    /\ call.log[k].customerId = c

\* C16: for one code and one customer, in sequence: consume, release,
\* consume succeeds on both consumes; a consume that follows a successful
\* consume with no release in between fails as already consumed and leaves
\* usedByCustomers unchanged.
C16_ConsumeReleaseConsume ==
    \A c \in ConsumeCustomers :
        /\ \A k \in 1..(Len(call.log) - 2) :
              (/\ Consume(k, c) /\ ~InSeq(c, call.log[k].before)
               /\ Release(k + 1, c) /\ Consume(k + 2, c))
              => /\ call.log[k].outcome = "marked"
                 /\ call.log[k + 2].outcome = "marked"
                 /\ InSeq(c, call.log[k + 2].after)
        /\ \A k, l \in 1..Len(call.log) :
              (/\ k < l
               /\ Consume(k, c) /\ call.log[k].outcome = "marked"
               /\ Consume(l, c)
               /\ \A m \in (k + 1)..(l - 1) : ~Release(m, c))
              => /\ call.log[l].outcome = "already_used"
                 /\ call.log[l].after = call.log[l].before

\* Customer 1 consumed, released and consumed again.
C16_Witness ==
    /\ Len(call.log) = 3
    /\ Consume(1, 1) /\ Release(2, 1) /\ Consume(3, 1)
    /\ call.log[1].outcome = "marked" /\ call.log[3].outcome = "marked"
    /\ promo.usedByCustomers = <<1>>

\* C17: release never fails and is idempotent: after it the customer is not
\* in usedByCustomers, no other customer's membership has changed, a release
\* of a customer who is not a member (a second release included) and a
\* release for a missing code leave the ledger unchanged.
C17_ReleaseIsIdempotent ==
    \A k \in 1..Len(call.log) :
        LET entry == call.log[k]
        IN  entry.fn = "removeUsage" =>
              /\ entry.outcome = "returned"
              /\ entry.promoCodeId = PromoCodeId =>
                    /\ ~InSeq(entry.customerId, entry.after)
                    /\ \A d \in ConsumeCustomers \ {entry.customerId} :
                          InSeq(d, entry.after) <=> InSeq(d, entry.before)
              /\ (\/ entry.promoCodeId # PromoCodeId
                  \/ ~InSeq(entry.customerId, entry.before))
                 => entry.after = entry.before

\* Customer 1 consumed the code and was then released twice in a row.
C17_Witness ==
    /\ Len(call.log) = 3
    /\ Consume(1, 1) /\ Release(2, 1) /\ Release(3, 1)
    /\ call.log[2].before = <<1>> /\ call.log[2].after = <<>>
    /\ call.log[3].after = <<>>

-----------------------------------------------------------------------------
(* Claims about validate and the discount *)

IsValidateCall == call.fn = "validatePromoCode"

\* Some customer record of the phone is in usedByCustomers.
UsedByPhone(phone) ==
    \E id \in DOMAIN customers :
        customers[id].phone = phone /\ InSeq(id, promo.usedByCustomers)

CapReached ==
    promo.maxTotalUses # 0 /\ Len(promo.usedByCustomers) >= promo.maxTotalUses

\* C18: validate checks, in this order, that the code exists, is active, is
\* not expired, has not been consumed by any customer record of the same
\* phone, and is under its usage cap; it returns valid = true iff all five
\* pass and otherwise reports the first check that fails in that order.
C18_ChecksInFixedOrder ==
    IsValidateCall =>
        LET r == call.result
            exists == call.code = PromoCodeId
            used == UsedByPhone(call.customerPhone)
        IN  /\ r.valid <=> (/\ exists /\ promo.isActive /\ ~promo.expired
                             /\ ~used /\ ~CapReached)
            /\ ~exists => r.message = "invalid"
            /\ (exists /\ ~promo.isActive) => r.message = "inactive"
            /\ (exists /\ promo.isActive /\ promo.expired)
                  => r.message = "expired"
            /\ (exists /\ promo.isActive /\ ~promo.expired /\ used)
                  => r.message = "already_used"
            /\ (exists /\ promo.isActive /\ ~promo.expired /\ ~used
                  /\ CapReached) => r.message = "limit_reached"

\* The code was consumed by the second customer record of the phone and its
\* cap is reached as well: the earlier of the two checks is reported.
C18_Witness ==
    /\ IsValidateCall
    /\ call.code = PromoCodeId /\ promo.isActive /\ ~promo.expired
    /\ call.customerPhone = "p1"
    /\ customers[1].phone = "p1" /\ customers[2].phone = "p1"
    /\ promo.usedByCustomers = <<2>> /\ promo.maxTotalUses = 1
    /\ call.result.message = "already_used"

IsDiscountCall == call.fn = "calculateDiscount"

\* The whole number of SAR nearest to amount * value / 100 (halves go up),
\* in halalas, found by search.
NearestSAR(amount, value) ==
    CHOOSE r \in {SAR(k) : k \in 0..1000} :
        /\ amount * value - 5000 < r * 100
        /\ r * 100 <= amount * value + 5000

\* C19: for every amount >= 0 the discount is round(amount * value / 100)
\* for a percentage code and value for a fixed code, clamped to the amount,
\* so that 0 <= discount <= amount and finalAmount = amount - discount >= 0.
C19_DiscountIsClamped ==
    IsDiscountCall =>
        LET r == call.result
            raw == IF call.discountType = "percentage"
                   THEN NearestSAR(call.amount, call.discountValue)
                   ELSE SAR(call.discountValue)
        IN  /\ r.discount = IF raw > call.amount THEN call.amount ELSE raw
            /\ 0 <= r.discount /\ r.discount <= call.amount
            /\ r.finalAmount = call.amount - r.discount
            /\ r.finalAmount >= 0

\* A fixed discount larger than the amount was clamped to the amount.
C19_Witness ==
    /\ IsDiscountCall
    /\ call.discountType = "fixed"
    /\ SAR(call.discountValue) > call.amount /\ call.amount > 0
    /\ call.result.discount = call.amount
    /\ call.result.finalAmount = 0

-----------------------------------------------------------------------------
(* Claims about the order of persisting and consuming *)

ReserveOps == {"createBooking", "createManualBooking", "paymentCallback"}

-----------------------------------------------------------------------------
(* Claims about reserve requests whose promo code is not applied *)

IsCodeRequest == call'.fn = "createBooking" /\ call'.code # None

\* The verdict of the checks on the request's code before the request.
CodeFails ==
    ~PromoVerdict(call'.code, SAR(270), TRUE, call'.customerPhone).valid

\* C21: a createBooking request whose promo code fails validation (unknown,
\* inactive, expired, already used by a customer with the phone, cap
\* reached) is not rejected for that: when the court is free the booking is
\* created, with discountAmount 0, finalPrice equal to totalPrice and no
\* promoCode, and usedByCustomers is unchanged.
C21_FailingCodeIsIgnored ==
    [][IsCodeRequest /\ CodeFails =>
          /\ checkAvailability(call'.court, 12, HM(19, 0), HM(21, 0), 0).available
                => resp'.outcome = "created"
          /\ resp'.outcome = "created" =>
                /\ Len(bookings') = Len(bookings) + 1
                /\ bookings'[Len(bookings')].promoCode = None
                /\ bookings'[Len(bookings')].discountAmount = 0
                /\ bookings'[Len(bookings')].finalPrice =
                      bookings'[Len(bookings')].totalPrice
                /\ promo' = promo]_vars

\* The second request of the phone carried the code that the phone's first
\* booking holds; its booking was created without it.
C21_Witness ==
    /\ call.fn = "createBooking" /\ call.code = PromoCodeId
    /\ resp.op = "createBooking" /\ resp.outcome = "created" /\ resp.id = 2
    /\ bookings[1].promoCode = PromoCodeId
    /\ bookings[1].status # "cancelled"
    /\ customers[bookings[1].customer].phone = call.customerPhone
    /\ promo.isActive /\ ~promo.expired /\ promo.maxTotalUses = 0
    /\ bookings[2].promoCode = None

-----------------------------------------------------------------------------
(* Claims about a consume that fails after the reservation was written *)

-----------------------------------------------------------------------------
(* Claims about the status of a reservation *)

Terminal == {"cancelled", "completed"}

\* C23: cancelled and completed are terminal: no request (updateBookingStatus,
\* updatePayment, updateBooking, cancelBooking, a reserve request or a
\* payment callback) changes the status of a reservation that is cancelled
\* or completed.
C23_TerminalStatusesStay ==
    [][\A i \in 1..Len(bookings) :
          bookings[i].status \in Terminal =>
              /\ i <= Len(bookings')
              /\ bookings'[i].status = bookings[i].status]_vars

\* A paid callback arrived for the payment of a reservation that had been
\* cancelled, and the reservation is still cancelled.
C23_Witness ==
    /\ resp.op = "paymentCallback"
    /\ resp.outcome \in {"populate_error", "no_pending"}
    /\ \E i \in 1..Len(bookings) :
          /\ bookings[i].createdFor = resp.paymentId
          /\ bookings[i].status = "cancelled"

\* C24: every change of the status of a reservation that holds a promo code
\* to cancelled, by cancelBooking or by updateBookingStatus, releases the
\* usage: after it the reservation's customer is not in usedByCustomers.
C24_CancelReleasesUsage ==
    [][\A i \in 1..Len(bookings) :
          (/\ bookings[i].status # "cancelled"
           /\ bookings'[i].status = "cancelled"
           /\ bookings[i].promoCode # None)
             => ~InSeq(bookings[i].customer, promo'.usedByCustomers)]_vars

\* C25: a cancelBooking request for a reservation that is already cancelled
\* is answered as a success and changes neither the reservation nor the
\* promo code.
C25_CancelIsIdempotent ==
    [][(resp'.op = "cancelBooking" /\ bookings[resp'.id].status = "cancelled")
          => /\ resp'.outcome = "cancelled"
             /\ UNCHANGED store]_vars

\* The transitions of the status.
ListedTransitions ==
    {<<"pending", "confirmed">>, <<"pending", "cancelled">>,
     <<"confirmed", "cancelled">>, <<"confirmed", "completed">>}

\* C26: the status of a reservation changes only from pending to confirmed,
\* from pending or confirmed to cancelled and from confirmed to completed;
\* a request for any other change leaves the status as it was.
C26_OnlyListedTransitions ==
    [][\A i \in 1..Len(bookings) :
          bookings'[i].status # bookings[i].status =>
              <<bookings[i].status, bookings'[i].status>> \in ListedTransitions]_vars

-----------------------------------------------------------------------------
(* Claims about what a request leaves alone *)

\* The fields of a reservation that are fixed when it is created.
Fixed(b) ==
    <<b.court, b.bookingDate, b.startTime, b.endTime, b.totalPrice,
      b.discountAmount, b.finalPrice, b.pricingBreakdown>>

\* C30: no request deletes a reservation, and no request changes the court,
\* bookingDate, startTime, endTime, totalPrice, discountAmount, finalPrice
\* or pricingBreakdown of a reservation that exists: cancelBooking,
\* updateBookingStatus, updatePayment, updateBooking and the payment
\* callback change status and payment fields only.
C30_ReservationsAreKept ==
    [][/\ Len(bookings') >= Len(bookings)
       /\ \A i \in 1..Len(bookings) : Fixed(bookings'[i]) = Fixed(bookings[i])]_vars

\* A reservation that was created with the code's discount has been
\* cancelled and then had its payment updated, and still carries the
\* discount.
C30_Witness ==
    /\ resp.op = "updatePayment" /\ resp.outcome = "updated"
    /\ bookings[resp.id].status = "cancelled"
    /\ bookings[resp.id].paymentStatus = "paid"
    /\ bookings[resp.id].promoCode = PromoCodeId
    /\ bookings[resp.id].discountAmount = SAR(54)
    /\ bookings[resp.id].finalPrice = SAR(216)
    /\ ~InSeq(bookings[resp.id].customer, promo.usedByCustomers)

-----------------------------------------------------------------------------
(* Claims about reserve requests that fail *)

\* C27: a createBooking or createManualBooking request that is answered
\* with an error has written nothing: no customer was created, no
\* totalBookings was incremented, no promo code was consumed and no
\* reservation was stored.
C27_FailedReserveWritesNothing ==
    [][(/\ resp'.op \in {"createBooking", "createManualBooking"}
        /\ resp'.outcome \notin {"created", "existing"})
          => UNCHANGED <<bookings, customers, promo>>]_vars

-----------------------------------------------------------------------------
(* Claims about the validation of intervals *)

\* The three checks on an interval: at least 60 minutes, a multiple of 30
\* minutes, and a start inside the operating hours (09:00 up to 04:00).
PassesIntervalChecks(startTime, endTime) ==
    /\ durationMinutes(startTime, endTime) >= 60
    /\ durationMinutes(startTime, endTime) % 30 = 0
    /\ \/ timeToMinutes(startTime) >= 9 * 60
       \/ timeToMinutes(startTime) < 4 * 60

CrossingDuration(startTime, endTime) ==
    MinutesPerDay - timeToMinutes(startTime) + timeToMinutes(endTime)

\* C29: an interval whose end is numerically less than or equal to its
\* start is read as crossing midnight by validation, by the overlap test
\* and by pricing alike: its duration is 1440 - start + end (a full day
\* when end = start), validation does not reject it as too short, it
\* overlaps itself, and pricing charges that duration.
C29_EndNotAfterStartCrossesMidnight ==
    /\ (/\ call.fn = "validateBookingTime"
        /\ timeToMinutes(call.endTime) <= timeToMinutes(call.startTime))
          => /\ call.duration = CrossingDuration(call.startTime, call.endTime)
             /\ call.result # "too_short"
    /\ (call.fn = "timeSlotsOverlap" /\ call.a.end <= call.a.start)
          => call.aa
    /\ (/\ call.fn = "calculateBookingPrice"
        /\ timeToMinutes(call.endTime) <= timeToMinutes(call.startTime)
        /\ call.result.ok)
          => call.result.totalMinutes =
                CrossingDuration(call.startTime, call.endTime)

-----------------------------------------------------------------------------
(* Claims about administrative blocks *)

\* A block of the request's court and date, other than the excluded
\* booking, that shares a minute with the request's interval.
BlockedAgainst(q) ==
    \E i \in 1..Len(bookings) :
        /\ i # q.exclude
        /\ bookings[i].status = "blocked"
        /\ bookings[i].court = q.court
        /\ bookings[i].bookingDate[1] = q.day
        /\ Intersects(timeToMinutes(bookings[i].startTime),
                      timeToMinutes(bookings[i].endTime),
                      timeToMinutes(q.startTime), timeToMinutes(q.endTime))

\* C31: a block is stored in status blocked with no customer, no promo code
\* and totalPrice, discountAmount and finalPrice 0, and as long as it is
\* not cancelled every availability request for its court and date whose
\* interval overlaps it is answered unavailable.
C31_BlockHoldsTheInterval ==
    /\ \A i \in 1..Len(bookings) :
          bookings[i].status = "blocked" =>
              /\ bookings[i].customer = 0
              /\ bookings[i].promoCode = None
              /\ bookings[i].totalPrice = 0
              /\ bookings[i].discountAmount = 0
              /\ bookings[i].finalPrice = 0
    /\ (resp.op = "checkAvailability" /\ BlockedAgainst(resp.request))
          => ~resp.result.available

-----------------------------------------------------------------------------
(* Claims about payment updates *)

\* C32: an updatePayment that reports paid or partial moves a pending
\* reservation to confirmed; no updatePayment changes the status of a
\* reservation that is not pending, or of another reservation, and a
\* payment callback changes the status of no existing reservation.
C32_PaymentConfirmsPendingOnly ==
    [][/\ (resp'.op = "updatePayment" /\ resp'.outcome = "updated") =>
             /\ (/\ bookings[resp'.id].status = "pending"
                 /\ bookings'[resp'.id].paymentStatus \in {"paid", "partial"})
                   => bookings'[resp'.id].status = "confirmed"
             /\ \A i \in 1..Len(bookings) :
                   (i # resp'.id \/ bookings[i].status # "pending")
                      => bookings'[i].status = bookings[i].status
       /\ resp'.op = "paymentCallback" =>
             \A i \in 1..Len(bookings) :
                 bookings'[i].status = bookings[i].status]_vars

\* A partial payment was reported for a reservation marked no-show, which
\* is still no-show.
C32_Witness ==
    /\ resp.op = "updatePayment" /\ resp.outcome = "updated"
    /\ bookings[resp.id].paymentStatus = "partial"
    /\ bookings[resp.id].status = "no-show"

-----------------------------------------------------------------------------
(* Claims about reserving an interval that a cancelled reservation held *)

\* No reservation that is not cancelled shares a minute with the interval
\* on the court and the date.
Free(court, day, startTime, endTime) ==
    ~\E i \in 1..Len(bookings) :
        /\ bookings[i].status # "cancelled"
        /\ bookings[i].court = court
        /\ bookings[i].bookingDate[1] = day
        /\ Intersects(timeToMinutes(startTime), timeToMinutes(endTime),
                      timeToMinutes(bookings[i].startTime),
                      timeToMinutes(bookings[i].endTime))

\* C33: a cancelled reservation is not a conflict: checkAvailability lists
\* no cancelled reservation and, like checkBatchAvailability, answers
\* available when only cancelled reservations overlap the interval, and a
\* createBooking for such an interval creates the reservation.
C33_CancelledIsNoConflict ==
    [][/\ (resp'.op = "checkAvailability") =>
             /\ \A i \in resp'.result.conflicts : bookings[i].status # "cancelled"
             /\ (Free(resp'.request.court, resp'.request.day,
                      resp'.request.startTime, resp'.request.endTime)
                   => resp'.result.available)
       /\ (resp'.op = "checkBatchAvailability") =>
             \A c \in resp'.request.courtIds, slot \in resp'.request.timeSlots :
                 (Free(c, resp'.request.day, slot[1], slot[2])
                    => resp'.result[c][slot].available)
       /\ (call'.fn = "createBooking") =>
             (Free(call'.court, call'.day, call'.startTime, call'.endTime)
                => resp'.outcome = "created")]_vars

\* The first reservation was cancelled and the second one holds its court,
\* date and interval.
C33_Witness ==
    /\ Len(bookings) = 2
    /\ resp.op = "createBooking" /\ resp.outcome = "created" /\ resp.id = 2
    /\ bookings[1].status = "cancelled"
    /\ bookings[2].status # "cancelled"
    /\ bookings[2].court = bookings[1].court
    /\ bookings[2].bookingDate = bookings[1].bookingDate
    /\ bookings[2].startTime = bookings[1].startTime
    /\ bookings[2].endTime = bookings[1].endTime

-----------------------------------------------------------------------------
(* Claims about the segments of the pricing walk *)

RECURSIVE SegmentMinutes(_)
\* The durations of the segments, added up.
SegmentMinutes(segments) ==
    IF segments = <<>> THEN 0
    ELSE Head(segments).to - Head(segments).from
         + SegmentMinutes(Tail(segments))

\* C34: for every interval that calculateBookingPrice prices (at least 60
\* minutes, a multiple of 30) the walk ends with ceil(duration / 60)
\* segments: the first begins at the start time, each begins where the one
\* before it ends, each lasts 60 minutes except a shorter last one, the
\* last ends at the end time, and the durations add up to the duration.
C34_SegmentsCoverTheInterval ==
    IsPriceCall =>
        LET b == call.result.breakdown
            d == call.result.totalMinutes
            n == Len(b)
        IN  /\ d >= MinutesPerHour /\ d % 30 = 0
            /\ n = (d + MinutesPerHour - 1) \div MinutesPerHour
            /\ b[1].from = At(call.bookingDay, call.startTime)
            /\ b[n].to = b[1].from + d
            /\ \A i \in 1..(n - 1) :
                  /\ b[i + 1].from = b[i].to
                  /\ b[i].to - b[i].from = MinutesPerHour
            /\ b[n].to - b[n].from > 0
            /\ b[n].to - b[n].from <= MinutesPerHour
            /\ SegmentMinutes(b) = d

\* 22:30-00:00 was priced: a segment of 60 minutes and one of 30.
C34_Witness ==
    /\ IsPriceCall
    /\ call.startTime = HM(22, 30) /\ call.endTime = HM(0, 0)
    /\ Len(call.result.breakdown) = 2
    /\ call.result.breakdown[2].to - call.result.breakdown[2].from = 30

-----------------------------------------------------------------------------
(* Claims about the bounds on the uses of a promo code *)

\* The reservations that are not cancelled and hold the code with a discount.
Discounted ==
    {i \in 1..Len(bookings) :
        /\ bookings[i].status # "cancelled"
        /\ bookings[i].promoCode = PromoCodeId
        /\ bookings[i].discountAmount > 0}

-----------------------------------------------------------------------------
(* Claims about the promo ledger and the reservations *)

\* C37: every reservation that is not cancelled and holds a promo code has
\* its customer in usedByCustomers, and every customer in usedByCustomers
\* owns a reservation that is not cancelled and holds the code.
C37_LedgerMatchesReservations ==
    /\ \A i \in 1..Len(bookings) :
          (bookings[i].status # "cancelled" /\ bookings[i].promoCode # None)
              => InSeq(bookings[i].customer, promo.usedByCustomers)
    /\ \A k \in 1..Len(promo.usedByCustomers) :
          \E i \in 1..Len(bookings) :
              /\ bookings[i].customer = promo.usedByCustomers[k]
              /\ bookings[i].status # "cancelled"
              /\ bookings[i].promoCode # None

-----------------------------------------------------------------------------
(* Claims about the amounts of a stored reservation *)

\* C38: every stored reservation has finalPrice = totalPrice - discountAmount
\* with 0 <= discountAmount <= totalPrice and finalPrice >= 0, whichever
\* request created it: createBooking, createManualBooking or the payment
\* callback, which takes finalPrice from the PendingBooking and derives the
\* discount by subtraction.
C38_AmountsAddUp ==
    \A i \in 1..Len(bookings) :
        /\ bookings[i].finalPrice =
              bookings[i].totalPrice - bookings[i].discountAmount
        /\ bookings[i].discountAmount >= 0
        /\ bookings[i].discountAmount <= bookings[i].totalPrice
        /\ bookings[i].finalPrice >= 0

\* A payment callback stored a reservation of base price 270 whose
\* PendingBooking carried the total 216: the discount is 54.
C38_Witness ==
    /\ resp.op = "paymentCallback" /\ resp.outcome = "created"
    /\ bookings[resp.id].createdFor = resp.paymentId
    /\ bookings[resp.id].totalPrice = SAR(270)
    /\ bookings[resp.id].finalPrice = SAR(216)
    /\ bookings[resp.id].discountAmount = SAR(54)

-----------------------------------------------------------------------------
(* Claims about the operating window *)

\* The interval of a validateBookingTime call in minutes from midnight of
\* the booking day; the end is on the next day when it is before the start.
CallFrom == timeToMinutes(call.startTime)

CallUntil ==
    IF timeToMinutes(call.endTime) < timeToMinutes(call.startTime)
    THEN timeToMinutes(call.endTime) + MinutesPerDay
    ELSE timeToMinutes(call.endTime)

\* The interval holds a minute between 04:00 and 09:00 of the booking day
\* or of the next day.
HoldsClosedMinute ==
    \E d \in {0, MinutesPerDay} :
        \E m \in (d + 4 * 60)..(d + 9 * 60 - 1) : CallFrom <= m /\ m < CallUntil

\* C39: an interval that validateBookingTime accepts holds no minute between
\* 04:00 and 09:00, whether it crosses midnight or not.
C39_AcceptedInsideTheWindow ==
    (call.fn = "validateBookingTime" /\ call.result = "ok")
        => ~HoldsClosedMinute

=============================================================================
